---- MODULE Spec2Model ----
(***************************************************************************)
(* The transaction orchestration layer of the banking system (Deposit,    *)
(* Withdraw, Transfer over the TigerBeetle ledger and the PostgreSQL      *)
(* audit log) and the confirmation-gated chat tools in front of it.       *)
(*                                                                         *)
(* Every request is handled by its own worker; each call of the ledger or *)
(* of the audit store is one atomic step, so concurrent requests          *)
(* interleave between their I/O calls exactly as goroutines do.           *)
(***************************************************************************)
EXTENDS Integers, Sequences, FiniteSets, TLC

(***************************************************************************)
(* Bounds of the model.                                                    *)
(***************************************************************************)
\* Requests the orchestrator's direct callers start in one behaviour.
MaxRequests == 3

\* Chat turns (messages and confirmations) started in one behaviour.
MaxTurns == 2

\* Workers that serve requests concurrently.
Workers == {1, 2}

\* Amounts (in cents) handed to the orchestrator by its direct callers.
DepositAmounts == {0, 1}
DebitAmounts == {0, 1, 2}

(***************************************************************************)
(* The world after construction and registration.                          *)
(***************************************************************************)
\* tigerbeetle/client.go: the bank's system account.
SystemAccountID == 1

\* Registered users and the ledger account each one is linked to
\* (models.User.TigerBeetleAccountID).
Users == {"u1", "u2"}
TigerBeetleAccountID == [u \in Users |-> IF u = "u1" THEN 2 ELSE 3]

\* An account ID no ledger account has.
UnknownAccountID == 9

\* Flags of the accounts (tb_types.AccountFlags).
SystemAccountFlags == {}
UserAccountFlags_NoLimit == {}
UserAccountFlags == {"debits_must_not_exceed_credits"}

\* Client.CreateAccount / Client.ensureSystemAccount: a new ledger account.
NewAccount(flags) == [flags |-> flags, credits_posted |-> 0, debits_posted |-> 0]

\* The ledger accounts that exist: the system account and one per user.
AccountIDs == {SystemAccountID} \cup {TigerBeetleAccountID[u] : u \in Users}

\* Destinations a caller may name in a transfer.
Destinations == {TigerBeetleAccountID[u] : u \in Users} \cup {UnknownAccountID}

\* Operation codes of the three transfers (Transfer.Code).
Code == [deposit |-> 1, withdraw |-> 2, transfer |-> 3]

\* main.go: the attempts main() makes to create the ledger client, and the
\* seconds it sleeps between two attempts.
maxConnectionRetries == 10
retryDelaySeconds == 2

VARIABLES
    accounts,      \* ledger: account id -> [flags, credits_posted, debits_posted]
    transfers,     \* ledger: the committed transfers
    transactions,  \* audit store: the transactions table
    calls,         \* worker -> the request it serves (its locals and position)
    issued,        \* chat: the CONFIRMATION_REQUIRED responses sent so far
    started,       \* requests started so far
    main,          \* the position and the locals of main()
    parser,        \* intent parser: the message in hand and what came of it
    stored         \* a models.Transaction whose transfer ID is set and read back

vars == <<accounts, transfers, transactions, calls, issued, started, main,
          parser, stored>>

ledger == <<accounts, transfers>>

(***************************************************************************)
(* The external ledger (TigerBeetle), as the adapter consumes it.          *)
(***************************************************************************)
\* Client.GetBalance: posted credits minus posted debits (big.Int), narrowed
\* by Int64(), which is exact for every balance of this model.
GetBalance(accountID) ==
    accounts[accountID].credits_posted - accounts[accountID].debits_posted

\* Client.LookupAccounts for one ID: the accounts found (none or one).
LookupAccounts(accountID) == {accountID} \cap DOMAIN accounts

\* The transfer the orchestrator builds for an operation.
NewTransfer_WithdrawReversed(id, debit, credit, amount, op) ==
    [id |-> id,
     debit_account_id |-> IF op = "withdraw" THEN credit ELSE debit,
     credit_account_id |-> IF op = "withdraw" THEN debit ELSE credit,
     amount |-> amount, ledger |-> 1, code |-> Code[op]]
NewTransfer(id, debit, credit, amount, op) ==
    [id |-> id, debit_account_id |-> debit, credit_account_id |-> credit,
     amount |-> amount, ledger |-> 1, code |-> Code[op]]

\* Client.CreateTransfers on a one-item batch: the ledger's result code for t
\* ("ok" stands for the empty result list).
CreateTransferResult(t) ==
    IF t.id = 0 THEN "id_must_not_be_zero"
    ELSE IF t.debit_account_id = t.credit_account_id
        THEN "accounts_must_be_different"
    ELSE IF t.debit_account_id \notin DOMAIN accounts
        THEN "debit_account_not_found"
    ELSE IF t.credit_account_id \notin DOMAIN accounts
        THEN "credit_account_not_found"
    ELSE IF \E x \in transfers : x.id = t.id
        THEN IF t \in transfers THEN "exists" ELSE "exists_with_different_fields"
    ELSE IF /\ "debits_must_not_exceed_credits" \in accounts[t.debit_account_id].flags
            /\ accounts[t.debit_account_id].debits_posted + t.amount
                   > accounts[t.debit_account_id].credits_posted
        THEN "exceeds_credits"
    ELSE "ok"

\* The ledger's accounts after it has committed t.
Post_DebitNotPosted(t) ==
    [a \in DOMAIN accounts |->
        IF a = t.credit_account_id
            THEN [accounts[a] EXCEPT !.credits_posted = @ + t.amount]
        ELSE accounts[a]]
Post(t) ==
    [a \in DOMAIN accounts |->
        IF a = t.debit_account_id
            THEN [accounts[a] EXCEPT !.debits_posted = @ + t.amount]
        ELSE IF a = t.credit_account_id
            THEN [accounts[a] EXCEPT !.credits_posted = @ + t.amount]
        ELSE accounts[a]]

\* uuid.New().ID(): a random 32-bit value.  Nonzero values not used before
\* are interchangeable, so one of them stands for all.
UsedIDs == {x.id : x \in transfers}
FreshID == CHOOSE i \in 1..(Cardinality(transfers) + 1) : i \notin UsedIDs
TransferIDs == {0, FreshID} \cup UsedIDs

(***************************************************************************)
(* The audit store (PostgreSQL, table transactions).                       *)
(***************************************************************************)
\* Uint128.BigInt().FillBytes: the 16 bytes of id, most significant first
\* (an ID made from uuid.ID() is below 2^32: the first 12 bytes are zero).
FillBytes(id) ==
    [i \in 1..16 |-> IF i <= 12 THEN 0 ELSE (id \div (256 ^ (16 - i))) % 256]

\* hex.EncodeToString: two hexadecimal digits per byte.
EncodeToString(bytes) ==
    [k \in 1..(2 * Len(bytes)) |->
        IF k % 2 = 1 THEN bytes[(k + 1) \div 2] \div 16
                     ELSE bytes[k \div 2] % 16]

\* Transaction.SetTigerBeetleTransferID: the stored form of a transfer ID.
Uint128ToHex(id) == EncodeToString(FillBytes(id))

\* tb_types.Uint128: 16 bytes, the least significant first.  ToUint128 makes
\* one from a uint64 (an ID made from uuid.ID() is below 2^32).
ToUint128(id) ==
    [i \in 1..16 |-> IF i > 4 THEN 0 ELSE (id \div (256 ^ (i - 1))) % 256]

\* id.BigInt() followed by bigInt.FillBytes(bytes): the 16 bytes of the ID's
\* value, the most significant first.
BigIntFillBytes(u) == [i \in 1..16 |-> u[17 - i]]

\* Transaction.SetTigerBeetleTransferID and Uint128ToHex on a Uint128: the
\* hexadecimal string that is stored.
TransferIDToHex(u) == EncodeToString(BigIntFillBytes(u))

\* hex.DecodeString: one byte per two hexadecimal digits.
DecodeString(s) ==
    [i \in 1..(Len(s) \div 2) |-> 16 * s[2 * i - 1] + s[2 * i]]

\* tb_types.BytesToUint128: the 16 bytes taken as the memory of a Uint128,
\* byte i of the array being byte i of the ID.
BytesToUint128(fixedBytes) == [i \in 1..16 |-> fixedBytes[i]]

\* Transaction.GetTigerBeetleTransferID and HexToUint128: the ID read back
\* from the stored string, or the error.
HexToUint128(s) ==
    IF Len(s) % 2 = 1 THEN [err |-> "odd_length_hex_string", id |-> ToUint128(0)]
    ELSE IF Len(DecodeString(s)) # 16
        THEN [err |-> "invalid_length", id |-> ToUint128(0)]
    ELSE [err |-> "", id |-> BytesToUint128(DecodeString(s))]

\* A models.Transaction no transfer ID has been set on, with the ID that is
\* going to be set and the one read back.
NoRecord ==
    [pc |-> "new", via |-> "", id |-> ToUint128(0),
     TigerBeetleTransferID |-> <<>>, got |-> ToUint128(0), err |-> ""]

\* The status the orchestrator gives a record it writes.
RecordStatus_Pending == "pending"
RecordStatus == "completed"

\* The models.Transaction the orchestrator builds after the ledger commit.
NewTransaction(user, recipient, op, amount, debit, credit, transferID) ==
    [user_id |-> user, recipient_user_id |-> recipient, type |-> op,
     amount |-> amount, status |-> RecordStatus,
     debit_account_id |-> debit, credit_account_id |-> credit,
     tigerbeetle_transfer_id |-> Uint128ToHex(transferID)]

\* CreatedAt of a row being inserted: the time of the insert, later than the
\* time of every row already there.
Now == Cardinality(transactions) + 1
Stamped(record) ==
    [f \in DOMAIN record \cup {"created_at"} |->
        IF f = "created_at" THEN Now ELSE record[f]]

\* Repository.Create succeeds unless the database fails or the unique index
\* on tigerbeetle_transfer_id rejects the row.
CanCreate(record) ==
    \A r \in transactions :
        r.tigerbeetle_transfer_id # record.tigerbeetle_transfer_id

\* The user a ledger account belongs to ("" when no user has it).
UserOfAccount(accountID) ==
    IF \E u \in Users : TigerBeetleAccountID[u] = accountID
        THEN CHOOSE u \in Users : TigerBeetleAccountID[u] = accountID
        ELSE ""

(***************************************************************************)
(* A request: the locals of the goroutine that serves it.                  *)
(***************************************************************************)
\* An argument map with neither key.
NoArgs == [amount |-> [type |-> "absent", cents |-> 0],
           to_account_id |-> [type |-> "absent", digits |-> <<>>]]

NoResponse == [reply |-> "", requiresConfirmation |-> FALSE,
               toolName |-> "", arguments |-> NoArgs, data |-> <<>>]

\* The ToolResult zero value, and the error of a completion request that
\* returned none.
NoToolResult == [success |-> FALSE, message |-> "", data |-> <<>>]
NoError == [kind |-> "", status |-> 0]

IdleCall ==
    [entry |-> "none",        \* api | message | confirm
     user |-> "",
     tool |-> "", args |-> NoArgs, confirmed |-> FALSE,   \* ExecuteTool's inputs
     handler |-> "",          \* the tool handler that was invoked, if any
     op |-> "",               \* the orchestrator method that runs
     amount |-> 0, dest |-> 0,
     pc |-> "idle",
     balance |-> -1,          \* the pre-flight read
     seenCredits |-> -1,      \* credits_posted at the pre-flight read
     recipient |-> "",        \* toUser
     transferID |-> 0,
     io |-> 0,                \* ledger and database calls the orchestrator made
     submissions |-> 0,       \* transfer batches handed to the ledger
     ledgerResult |-> "",     \* result of the submission, "" before it
     committed |-> FALSE,     \* this call's transfer is in the ledger
     audited |-> FALSE,       \* this call's record is in the audit store
     auditFailed |-> FALSE,   \* Repository.Create returned an error
     result |-> "",           \* "nil" or the error returned, "" while running
     pageArg |-> 0, limitArg |-> 0,   \* paging arguments as the caller gave them
     page |-> 0, limit |-> 0,         \* paging arguments of the repository query
     history |-> <<>>,                \* the records GetHistory returned
     completions |-> 0,       \* requests sent to the completion service
     status |-> 0, body |-> "",       \* status and body of a non-200 answer
     error |-> NoError,       \* the error callOpenRouter returned for it
     content |-> "",          \* message.Content of the first answer
     toolResult |-> NoToolResult,     \* what ExecuteTool returned
     summary |-> "",          \* how the summarising request ended
     toolCalls |-> <<>>,      \* names of message.ToolCalls of the first answer
     cancelled |-> FALSE,     \* the caller has cancelled the HTTP request
     response |-> NoResponse]

Free(w) == calls[w].pc \in {"idle", "done"}

\* The locals of a request that has returned are gone at the next step.
Retired == [w \in Workers |-> IF calls[w].pc = "done" THEN IdleCall ELSE calls[w]]

\* A request goes to the lowest free worker (workers are interchangeable).
CanStart(w, limit) ==
    /\ Free(w)
    /\ started < limit
    /\ \A v \in Workers : v < w => ~Free(v)

Finish(c, err) == [c EXCEPT !.pc = "done", !.result = err]

(***************************************************************************)
(* Transaction Orchestrator: transaction/service.go                        *)
(***************************************************************************)
\* The amount check that opens Deposit, Withdraw and Transfer.
InvalidAmount_NegativeOnly(amount) == amount < 0
InvalidAmount(amount) == amount <= 0

\* The pre-flight comparison of Withdraw and Transfer.
InsufficientFunds_Never(balance, amount) == FALSE
InsufficientFunds(balance, amount) == balance < amount

\* The check of the batch call's error.
SubmissionFailed_Ignored(transportOK) == FALSE
SubmissionFailed(transportOK) == ~transportOK

\* What follows a failed batch call: the error is returned, nothing is retried.
AfterSubmissionError_Retry(c) == [c EXCEPT !.pc = "submit"]
AfterSubmissionError(c) == Finish(c, "failed_to_create_transfer")

\* The check of the per-item results: len(results) > 0.
TransferRejected_Ignored(code) == FALSE
TransferRejected(code) == code # "ok"

\* What the operation returns once the ledger has committed, whatever
\* Repository.Create returned.
ResultAfterCommit_Strict(createOK) == IF createOK THEN "nil" ELSE "audit_write_failed"
ResultAfterCommit(createOK) == "nil"

\* Debit and credit side of each operation.
DebitAccount_FirstUser(c) ==
    IF c.op = "deposit" THEN SystemAccountID ELSE TigerBeetleAccountID["u1"]
DebitAccount(c) ==
    IF c.op = "deposit" THEN SystemAccountID ELSE TigerBeetleAccountID[c.user]
CreditAccount_DestinationIgnored(c) ==
    IF c.op = "deposit" THEN TigerBeetleAccountID[c.user] ELSE SystemAccountID
CreditAccount(c) ==
    IF c.op = "deposit" THEN TigerBeetleAccountID[c.user]
    ELSE IF c.op = "withdraw" THEN SystemAccountID
    ELSE c.dest

\* The opening of Deposit, Withdraw and Transfer: the amount check, then
\* getUserByID (dbOK: the users query succeeded).
Enter(c, op, user, amount, dest, dbOK) ==
    LET d == [c EXCEPT !.op = op, !.user = user, !.amount = amount, !.dest = dest]
    IN  IF InvalidAmount(amount) THEN Finish(d, "amount_must_be_positive")
        ELSE IF ~dbOK THEN Finish([d EXCEPT !.io = @ + 1], "user_lookup_failed")
        ELSE [d EXCEPT !.io = @ + 1,
                       !.pc = IF op = "deposit" THEN "submit" ELSE "balance"]

ApiCall(user) == [IdleCall EXCEPT !.entry = "api", !.user = user]

Deposit(w) ==
    /\ CanStart(w, MaxRequests)
    /\ \E u \in Users, a \in DepositAmounts, dbOK \in BOOLEAN :
        calls' = [Retired EXCEPT ![w] = Enter(ApiCall(u), "deposit", u, a, 0, dbOK)]
    /\ started' = started + 1
    /\ UNCHANGED <<accounts, transfers, transactions, issued, main, parser, stored>>

Withdraw(w) ==
    /\ CanStart(w, MaxRequests)
    /\ \E u \in Users, a \in DebitAmounts, dbOK \in BOOLEAN :
        calls' = [Retired EXCEPT ![w] = Enter(ApiCall(u), "withdraw", u, a, 0, dbOK)]
    /\ started' = started + 1
    /\ UNCHANGED <<accounts, transfers, transactions, issued, main, parser, stored>>

Transfer(w) ==
    /\ CanStart(w, MaxRequests)
    /\ \E u \in Users, a \in DebitAmounts, d \in Destinations, dbOK \in BOOLEAN :
        calls' = [Retired EXCEPT ![w] = Enter(ApiCall(u), "transfer", u, a, d, dbOK)]
    /\ started' = started + 1
    /\ UNCHANGED <<accounts, transfers, transactions, issued, main, parser, stored>>

\* Withdraw/Transfer: tbClient.GetBalance, then the pre-flight comparison.
CheckBalance(w) ==
    LET c == [calls[w] EXCEPT !.io = @ + 1]
        acct == DebitAccount(c)
    IN  /\ c.pc = "balance"
        /\ \E ledgerOK \in BOOLEAN :
            calls' = [Retired EXCEPT ![w] =
                IF ~ledgerOK THEN Finish(c, "failed_to_check_balance")
                ELSE LET d == [c EXCEPT !.balance = GetBalance(acct),
                                        !.seenCredits = accounts[acct].credits_posted]
                     IN  IF InsufficientFunds(d.balance, d.amount)
                             THEN Finish(d, "insufficient_funds")
                         ELSE [d EXCEPT !.pc = IF c.op = "transfer" THEN "lookup"
                                                                     ELSE "submit"]]
        /\ UNCHANGED <<accounts, transfers, transactions, issued, started, main, parser, stored>>

\* Transfer: the destination lookup in the ledger, then the search of the
\* recipient among the users (dbOK: that query succeeded).
VerifyDestination(w) ==
    LET c == [calls[w] EXCEPT !.io = @ + 1]
    IN  /\ c.pc = "lookup"
        /\ \E ledgerOK \in BOOLEAN, dbOK \in BOOLEAN :
            calls' = [Retired EXCEPT ![w] =
                IF ~ledgerOK \/ LookupAccounts(c.dest) = {}
                    THEN Finish(c, "destination_account_not_found")
                ELSE [c EXCEPT !.pc = "submit", !.io = @ + 1,
                               !.recipient = IF dbOK THEN UserOfAccount(c.dest) ELSE ""]]
        /\ UNCHANGED <<accounts, transfers, transactions, issued, started, main, parser, stored>>

\* The transfer ID is generated and the one-item batch is submitted; the
\* ledger applies it atomically or rejects it.
SubmitTransfer(w) ==
    LET c == calls[w]
    IN  /\ c.pc = "submit"
        /\ \E id \in TransferIDs, transportOK \in BOOLEAN :
            LET t == NewTransfer(id, DebitAccount(c), CreditAccount(c), c.amount, c.op)
                code == CreateTransferResult(t)
                d == [c EXCEPT !.transferID = id, !.io = @ + 1,
                               !.submissions = @ + 1]
            IN  IF ~transportOK
                    THEN /\ calls' = [Retired EXCEPT ![w] =
                                IF SubmissionFailed(transportOK)
                                    THEN AfterSubmissionError(d)
                                    ELSE [d EXCEPT !.pc = "audit"]]
                         /\ UNCHANGED <<accounts, transfers>>
                ELSE /\ calls' = [Retired EXCEPT ![w] =
                            IF TransferRejected(code)
                                THEN Finish([d EXCEPT !.ledgerResult = code],
                                            "transfer_failed")
                                ELSE [d EXCEPT !.ledgerResult = code,
                                               !.committed = (code = "ok"),
                                               !.pc = "audit"]]
                     /\ IF code = "ok"
                            THEN /\ transfers' = transfers \cup {t}
                                 /\ accounts' = Post(t)
                            ELSE UNCHANGED <<accounts, transfers>>
        /\ UNCHANGED <<transactions, issued, started, main, parser, stored>>

\* The audit record is written, best effort: the operation returns nil
\* whether or not Repository.Create succeeded.
RecordTransaction(w) ==
    LET c == calls[w]
        record == Stamped(NewTransaction(c.user, c.recipient, c.op, c.amount,
                                         DebitAccount(c), CreditAccount(c),
                                         c.transferID))
    IN  /\ c.pc = "audit"
        /\ \E dbOK \in BOOLEAN :
            LET createOK == dbOK /\ CanCreate(record)
            IN  /\ transactions' = IF createOK THEN transactions \cup {record}
                                               ELSE transactions
                /\ calls' = [Retired EXCEPT ![w] =
                        Finish([c EXCEPT !.audited = createOK, !.io = @ + 1,
                                         !.auditFailed = ~createOK],
                               ResultAfterCommit(createOK))]
        /\ UNCHANGED <<accounts, transfers, issued, started, main, parser, stored>>

(***************************************************************************)
(* Transaction history: Service.GetHistory over Repository.GetAllByUserID. *)
(***************************************************************************)
\* Paging arguments callers pass.
HistoryPages == {0, 1, 2, 3}
HistoryLimits == {0, 1, 2, 101}

\* Service.GetHistory: the defaults that replace out-of-range arguments.
PageOrDefault(page) == IF page < 1 THEN 1 ELSE page
LimitOrDefault_Unchecked(limit) == limit
LimitOrDefault(limit) == IF limit < 1 \/ limit > 100 THEN 10 ELSE limit

\* handleGetHistory: the limit argument of the chat tool (10 when absent),
\* cut to 1..100 before the service is called.
ToolLimit(given, value) ==
    LET limit == IF given THEN value ELSE 10
    IN  IF limit < 1 THEN 1 ELSE IF limit > 100 THEN 100 ELSE limit

\* Repository.GetAllByUserID: offset := (page - 1) * limit, not below 0.
Offset(page, limit) ==
    LET offset == (page - 1) * limit
    IN  IF offset < 0 THEN 0 ELSE offset

\* WHERE user_id = ? OR recipient_user_id = ?
Involves(r, user) == r.user_id = user \/ r.recipient_user_id = user

\* ORDER BY created_at DESC
RECURSIVE NewestFirst(_)
NewestFirst(rows) ==
    IF rows = {} THEN <<>>
    ELSE LET newest == CHOOSE r \in rows :
                           \A x \in rows : x.created_at <= r.created_at
         IN  <<newest>> \o NewestFirst(rows \ {newest})

\* LIMIT limit OFFSET offset
LimitOffset(rows, limit, offset) ==
    [i \in 1..(IF Len(rows) - offset < limit
                   THEN (IF Len(rows) < offset THEN 0 ELSE Len(rows) - offset)
                   ELSE limit) |-> rows[offset + i]]

GetAllByUserID(user, page, limit) ==
    LimitOffset(NewestFirst({r \in transactions : Involves(r, user)}),
                limit, Offset(page, limit))

\* Service.GetHistory, called with (user, page, limit) by request c: the
\* arguments are put in range, the user is read, the page is queried.
HistoryCall(c, user, page, limit, userOK, queryOK) ==
    LET d == [c EXCEPT !.op = "history", !.user = user,
                       !.page = PageOrDefault(page),
                       !.limit = LimitOrDefault(limit)]
    IN  IF ~userOK THEN Finish([d EXCEPT !.io = 1], "user_lookup_failed")
        ELSE IF ~queryOK
            THEN Finish([d EXCEPT !.io = 2], "failed_to_retrieve_history")
        ELSE Finish([d EXCEPT !.io = 2,
                              !.history = GetAllByUserID(user, d.page, d.limit)],
                    "nil")

\* GET /api/transactions/history?page=..&limit=..
GetHistory(w) ==
    /\ CanStart(w, MaxRequests)
    /\ \E u \in Users, page \in HistoryPages, limit \in HistoryLimits,
          userOK \in BOOLEAN, queryOK \in BOOLEAN :
        calls' = [Retired EXCEPT ![w] =
            HistoryCall([ApiCall(u) EXCEPT !.pageArg = page, !.limitArg = limit],
                        u, page, limit, userOK, queryOK)]
    /\ started' = started + 1
    /\ UNCHANGED <<accounts, transfers, transactions, issued, main, parser, stored>>

\* The chat tool get_transaction_history (it needs no confirmation): always
\* page 1, with the tool's limit.
HandleGetHistory(w) ==
    /\ CanStart(w, MaxRequests)
    /\ \E u \in Users, given \in BOOLEAN, limit \in HistoryLimits,
          userOK \in BOOLEAN, queryOK \in BOOLEAN :
        calls' = [Retired EXCEPT ![w] =
            HistoryCall([IdleCall EXCEPT !.entry = "message", !.user = u,
                                         !.tool = "get_transaction_history",
                                         !.handler = "get_transaction_history",
                                         !.pageArg = 1,
                                         !.limitArg = IF given THEN limit ELSE 10],
                        u, 1, ToolLimit(given, limit), userOK, queryOK)]
    /\ started' = started + 1
    /\ UNCHANGED <<accounts, transfers, transactions, issued, main, parser, stored>>

(***************************************************************************)
(* Tool Registry / Confirmation Gate: MCPServer and its tool handlers.     *)
(***************************************************************************)
\* MCPServer.registerTools: the catalog.
ToolNames == {"get_balance", "get_transaction_history",
              "deposit", "withdraw", "transfer"}

\* Tool.RequiresConfirmation as registerTools sets it.
RequiresConfirmation_Every(toolName) == TRUE
RequiresConfirmation_WithdrawOpen(toolName) == toolName \in {"deposit", "transfer"}
RequiresConfirmation(toolName) == toolName \in {"deposit", "withdraw", "transfer"}

\* MCPServer.ExecuteTool up to the handler call: what it decides to do.
ExecuteTool(toolName, confirmed) ==
    IF toolName \notin ToolNames THEN "tool_not_found"
    ELSE IF RequiresConfirmation(toolName) /\ ~confirmed THEN "confirmation_required"
    ELSE "invoke_handler"

\* int64(amountUSD * 100) on a float64: the amount in cents for an amount of
\* h hundredths of a dollar.  The product falls just below the integer for
\* the amounts of Truncated (0.29 * 100 = 28.999999999999996), and the
\* conversion truncates.
Truncated == {29, 57, 58, 113, 114, 115, 116}
USDToCents(h) == IF h \in Truncated THEN h - 1 ELSE h

\* strconv.ParseUint(s, 10, 64) on a string of characters: the value, or -1
\* for an error (an empty string or a character that is no digit).
Digits == <<"0", "1", "2", "3", "4", "5", "6", "7", "8", "9">>
DigitValue(ch) == (CHOOSE i \in 1..10 : Digits[i] = ch) - 1
RECURSIVE ParseUint(_)
ParseUint(str) ==
    IF str = <<>> THEN -1
    ELSE IF \E i \in 1..Len(str) : \A j \in 1..10 : Digits[j] # str[i] THEN -1
    ELSE IF Len(str) = 1 THEN DigitValue(str[1])
    ELSE 10 * ParseUint(SubSeq(str, 1, Len(str) - 1)) + DigitValue(str[Len(str)])

\* Argument values of a tool call: "amount" is a JSON number of dollars (kept
\* in hundredths), another JSON value, or absent; "to_account_id" is a
\* string or absent.
Number(h) == [type |-> "float64", cents |-> h]
Str(chars) == [type |-> "string", digits |-> chars]
Arguments(amount, account) == [amount |-> amount, to_account_id |-> account]
ArgMaps ==
    {NoArgs,
     Arguments(Number(0), NoArgs.to_account_id),
     Arguments(Number(29), NoArgs.to_account_id),
     Arguments(Number(29), Str(<<"3">>)),
     Arguments(Number(29), Str(<<"x">>))}

\* handleDeposit, handleWithdraw, handleTransfer: the argument checks, then
\* the call of the orchestrator with the amount converted to cents.
HandleMoneyTool(c, toolName, args, dbOK) ==
    LET d == [c EXCEPT !.handler = toolName]
    IN  IF args.amount.type # "float64" THEN Finish(d, "invalid_amount_type")
        ELSE IF args.amount.cents <= 0 THEN Finish(d, "amount_must_be_positive")
        ELSE IF toolName # "transfer"
            THEN Enter(d, toolName, c.user, USDToCents(args.amount.cents), 0, dbOK)
        ELSE IF args.to_account_id.type # "string"
            THEN Finish(d, "invalid_to_account_id_type")
        ELSE IF ParseUint(args.to_account_id.digits) < 0
            THEN Finish(d, "invalid_destination_account_id")
        ELSE Enter(d, toolName, c.user, USDToCents(args.amount.cents),
                   ParseUint(args.to_account_id.digits), dbOK)

\* tool.Handler(ctx, userID, args): the read tools run in a step of their own.
InvokeHandler(c, toolName, args, dbOK) ==
    IF toolName \in {"get_balance", "get_transaction_history"}
        THEN [c EXCEPT !.handler = toolName, !.pc = "read"]
        ELSE HandleMoneyTool(c, toolName, args, dbOK)

\* Tool.GetConfirmationMessage and the ToolResult that asks for confirmation.
ConfirmationRequest_NoArguments(toolName, args) ==
    [reply |-> "confirmation_message", requiresConfirmation |-> TRUE,
     toolName |-> toolName, arguments |-> NoArgs, data |-> <<>>]
ConfirmationRequest(toolName, args) ==
    [reply |-> "confirmation_message", requiresConfirmation |-> TRUE,
     toolName |-> toolName, arguments |-> args, data |-> <<>>]

\* handleGetBalance / handleGetHistory: the ToolResult of a read that
\* succeeded (Success, Message and Data; the balance stands for the data).
ReadResult(toolName, balance) ==
    [success |-> TRUE,
     message |-> IF toolName = "get_balance" THEN "current_balance"
                                             ELSE "transactions_found",
     data |-> <<balance>>]

(***************************************************************************)
(* Conversational Orchestrator: AIClient and chat Service.                 *)
(***************************************************************************)
\* What the completion service may answer to the first request.
RequestedTools == ToolNames \cup {"unknown_tool"}

\* Status codes and bodies of the answers that are not 200 OK.
ErrorStatuses == {400, 401, 403, 429, 500, 503, 504}
Bodies == {"quota of key sk-1 exceeded", "upstream trace"}

\* An answer to a completion request: "transport_error" (no answer was
\* read), "http_error" (a status other than 200), or a 200 answer with no
\* choices, with text, with no text, with a tool call whose arguments do
\* not parse, or with a tool call.  name and args are those of the first
\* tool call, others the names of the tool calls that follow it.
Reply(kind, status, body, content, name, args) ==
    [kind |-> kind, status |-> status, body |-> body, content |-> content,
     name |-> name, args |-> args, others |-> <<>>]
Replies ==
    {Reply(k, 0, "", "", "", NoArgs) :
        k \in {"transport_error", "no_choices", "empty_text", "bad_arguments"}}
    \cup {Reply("text", 0, "", "reply text", "", NoArgs)}
    \cup {Reply("tool_call", 0, "", "", n, a) :
            n \in RequestedTools, a \in ArgMaps}

ErrorReplies ==
    {Reply("http_error", st, b, "", "", NoArgs) : st \in ErrorStatuses, b \in Bodies}

\* Answers that carry two tool calls.
ManyCallReplies ==
    {[Reply("tool_call", 0, "", "", n[1], a) EXCEPT !.others = <<n[2]>>] :
        n \in {<<"get_balance", "deposit">>, <<"deposit", "get_balance">>,
               <<"get_transaction_history", "transfer">>},
        a \in ArgMaps}

\* parseToolCall: the tool call that is executed is message.ToolCalls[0].
parseToolCall_Last(r) == IF r.others = <<>> THEN r.name ELSE r.others[Len(r.others)]
parseToolCall(r) == r.name

\* The names of the tool calls an answer carries.
ToolCallsOf(r) == IF r.kind = "tool_call" THEN <<r.name>> \o r.others ELSE <<>>

\* callOpenRouter: the error returned for an answer whose status is not 200.
CallOpenRouterError_WithBody(status, body) == [kind |-> body, status |-> status]
CallOpenRouterError(status, body) ==
    IF status = 429 THEN [kind |-> "temporarily_busy", status |-> 0]
    ELSE IF status \in {401, 403} THEN [kind |-> "authentication_error", status |-> 0]
    ELSE IF status = 400 THEN [kind |-> "invalid_request_format", status |-> 0]
    ELSE IF status \in {503, 504}
        THEN [kind |-> "temporarily_unavailable", status |-> 0]
    ELSE [kind |-> "service_error", status |-> status]

\* callOpenRouter and the check of the choices: the error a completion
\* request ends with (NoError when it brought a choice).
CompletionError(r) ==
    IF r.kind = "transport_error"
        THEN [kind |-> "failed_to_execute_http_request", status |-> 0]
    ELSE IF r.kind = "http_error" THEN CallOpenRouterError(r.status, r.body)
    ELSE IF r.kind = "no_choices" THEN [kind |-> "no_choices", status |-> 0]
    ELSE NoError

\* handleAIResponse, no tool call: the reply is the answer's text, or a
\* fixed sentence when the text is empty.
TextReply_Verbatim(content) == content
TextReply(content) == IF content = "" THEN "not_sure_how_to_help" ELSE content

\* formatToolResponse: the summary made from the tool's result alone.
FormatToolResponse(result) ==
    IF ~result.success THEN "i_encountered_an_error" ELSE result.message

\* The confirmed flag AIClient.handleAIResponse passes to ExecuteTool.
ConfirmedByProcessMessage_True == TRUE
ConfirmedByProcessMessage == FALSE

\* Service.ProcessConfirmation: the user declined.
Declined_Never(confirmed) == FALSE
Declined_Inverted(confirmed) == confirmed
Declined(confirmed) == ~confirmed

ChatCall(entry, user, toolName, args, confirmed) ==
    [IdleCall EXCEPT !.entry = entry, !.user = user, !.tool = toolName,
                     !.args = args, !.confirmed = confirmed]

\* Service.ProcessMessage -> AIClient.ProcessMessage -> handleAIResponse,
\* the completion service answering with one of replies.
ProcessMessageOn(w, replies) ==
    /\ CanStart(w, MaxTurns)
    /\ started' = started + 1
    /\ UNCHANGED <<accounts, transfers, transactions, main, parser, stored>>
    /\ \E u \in Users, r \in replies :
        LET c == [ChatCall("message", u, parseToolCall(r), r.args,
                           ConfirmedByProcessMessage)
                    EXCEPT !.completions = 1, !.status = r.status,
                           !.toolCalls = ToolCallsOf(r),
                           !.body = r.body, !.content = r.content,
                           !.error = CompletionError(r)]
            decision == ExecuteTool(parseToolCall(r), ConfirmedByProcessMessage)
        IN  IF CompletionError(r) # NoError
                THEN /\ calls' = [Retired EXCEPT ![w] = Finish(c, "failed_to_process_message")]
                     /\ UNCHANGED issued
            ELSE IF r.kind \in {"text", "empty_text", "bad_arguments"}
                THEN /\ calls' = [Retired EXCEPT ![w] =
                            Finish([c EXCEPT !.response.reply = TextReply(r.content)],
                                   "nil")]
                     /\ UNCHANGED issued
            ELSE IF decision = "tool_not_found"
                THEN /\ calls' = [Retired EXCEPT ![w] =
                            Finish([c EXCEPT !.response.reply = "tool_error"], "nil")]
                     /\ UNCHANGED issued
            ELSE IF decision = "confirmation_required"
                THEN /\ calls' = [Retired EXCEPT ![w] =
                            Finish([c EXCEPT !.response =
                                       ConfirmationRequest(parseToolCall(r), r.args)],
                                   "nil")]
                     /\ issued' = issued \cup {<<u, parseToolCall(r), r.args>>}
            ELSE /\ \E dbOK \in BOOLEAN :
                    calls' = [Retired EXCEPT ![w] =
                                InvokeHandler(c, parseToolCall(r), r.args, dbOK)]
                 /\ UNCHANGED issued

ProcessMessage(w) == ProcessMessageOn(w, Replies)
ProcessMessageAnyAnswer(w) ==
    ProcessMessageOn(w, Replies \cup ErrorReplies \cup ManyCallReplies)

\* What the summarising request may end with.
SummaryReplies ==
    {Reply("transport_error", 0, "", "", "", NoArgs),
     Reply("text", 0, "", "summary text", "", NoArgs)}
SummaryErrorReplies ==
    {Reply(k, 0, "", "", "", NoArgs) : k \in {"no_choices", "empty_text"}}
    \cup {Reply("http_error", 500, "upstream trace", "", "", NoArgs)}
    \cup {Reply("tool_call", 0, "", t, "deposit", Arguments(Number(29), NoArgs.to_account_id)) :
            t \in {"", "summary text"}}

\* The summarising request failed, or brought no text.
SummaryFailed_OnlyErrors(r) == CompletionError(r) # NoError
SummaryFailed(r) == CompletionError(r) # NoError \/ r.content = ""

\* handleToolResultWithAI: the tool's result is sent to the completion
\* service, which answers r; the reply is its text, or the summary made
\* from the result when the request fails or brings no text.  The data go
\* with either.
HandleToolResultWithAI(c, r) ==
    Finish([c EXCEPT !.completions = @ + 1,
                     !.summary = r.kind,
                     !.response.reply = IF SummaryFailed(r)
                                            THEN FormatToolResponse(c.toolResult)
                                            ELSE r.content,
                     !.response.data = c.toolResult.data], "nil")

\* handleGetBalance / handleGetHistory run: reads of the ledger and of the
\* audit store.  In a ProcessMessage turn an error becomes the reply and a
\* result goes to the summarising request (which touches neither store);
\* in ProcessConfirmation an error is returned and the result's message is
\* the reply.
ReadToolOn(w, replies) ==
    LET c == calls[w]
        balance == IF c.handler = "get_balance"
                       THEN GetBalance(TigerBeetleAccountID[c.user]) ELSE -1
        result == ReadResult(c.handler, balance)
        d == [c EXCEPT !.balance = balance, !.toolResult = result]
    IN  /\ c.pc = "read"
        /\ \E ok \in BOOLEAN :
            IF c.entry = "message" /\ ok
                THEN \E r \in replies :
                        calls' = [Retired EXCEPT ![w] = HandleToolResultWithAI(d, r)]
            ELSE calls' = [Retired EXCEPT ![w] =
                    IF c.entry = "message"
                        THEN Finish([c EXCEPT !.response.reply = "tool_error"], "nil")
                    ELSE IF ~ok THEN Finish(c, "failed_to_execute_operation")
                    ELSE Finish([d EXCEPT !.response.reply = result.message,
                                          !.response.data = result.data], "nil")]
        /\ UNCHANGED <<accounts, transfers, transactions, issued, started, main, parser, stored>>

ReadTool(w) == ReadToolOn(w, SummaryReplies)
ReadToolAnyAnswer(w) == ReadToolOn(w, SummaryReplies \cup SummaryErrorReplies)

\* Service.ProcessConfirmation when the user declined: the reply, no error.
Decline_AsError(c) == Finish(c, "operation_cancelled")
Decline(c) == Finish([c EXCEPT !.response.reply = "operation_cancelled"], "nil")

\* Service.ProcessConfirmation.
ProcessConfirmationOn(w, tools, argMaps) ==
    /\ CanStart(w, MaxTurns)
    /\ started' = started + 1
    /\ UNCHANGED <<accounts, transfers, transactions, issued, main, parser, stored>>
    /\ \E u \in Users, n \in tools, a \in argMaps, confirmed \in BOOLEAN :
        LET c == ChatCall("confirm", u, n, a, confirmed)
        IN  IF Declined(confirmed)
                THEN calls' = [Retired EXCEPT ![w] = Decline(c)]
            ELSE IF ExecuteTool(n, TRUE) = "tool_not_found"
                THEN calls' = [Retired EXCEPT ![w] =
                        Finish(c, "failed_to_execute_operation")]
            ELSE \E dbOK \in BOOLEAN :
                    calls' = [Retired EXCEPT ![w] = InvokeHandler(c, n, a, dbOK)]

ProcessConfirmation(w) == ProcessConfirmationOn(w, RequestedTools, ArgMaps)

(***************************************************************************)
(* Intent parser: ParseIntent and ValidateIntent.                          *)
(***************************************************************************)
\* A message, trimmed, is a sequence of tokens separated by whitespace:
\* words, and numerals written with their integer digits (units) and, when
\* cents > 0, two decimals.
Word(text) == [kind |-> "word", text |-> text, units |-> 0, cents |-> 0]
Numeral(units, cents) == [kind |-> "number", text |-> "", units |-> units, cents |-> cents]

At(m, i, words) == i \in 1..Len(m) /\ m[i].kind = "word" /\ m[i].text \in words
IsNumeral(m, i) == i \in 1..Len(m) /\ m[i].kind = "number"

\* The end of "my account" / "account" after the token at j.
MyAccount(m, j) ==
    At(m, j + 1, {"account"}) \/ (At(m, j + 1, {"my"}) /\ At(m, j + 2, {"account"}))

\* intentPatterns, family by family.  A pattern that ends in \s+ needs a
\* token after it; "\s+.*\s+" needs one token at least in between.
BalancePattern(m) ==
    \/ \E i \in 1..Len(m) : At(m, i, {"balance"})
    \/ \E i \in 1..Len(m) :
        At(m, i, {"how"}) /\ At(m, i + 1, {"much"}) /\ At(m, i + 2, {"money", "funds", "cash"})
    \/ \E i \in 1..Len(m) : At(m, i, {"account"}) /\ At(m, i + 1, {"balance"})

DepositPattern(m) ==
    \/ \E i \in 1..Len(m) : At(m, i, {"deposit"}) /\ i < Len(m)
    \/ \E i, j \in 1..Len(m) :
        At(m, i, {"add"}) /\ j >= i + 2 /\ At(m, j, {"to"}) /\ MyAccount(m, j)
    \/ \E i, j \in 1..Len(m) :
        At(m, i, {"put"}) /\ j >= i + 2 /\ At(m, j, {"in", "into"}) /\ MyAccount(m, j)

WithdrawPattern(m) ==
    \/ \E i \in 1..Len(m) : At(m, i, {"withdraw", "remove"}) /\ i < Len(m)
    \/ \E i \in 1..Len(m) :
        At(m, i, {"take", "cash"}) /\ At(m, i + 1, {"out"}) /\ i + 1 < Len(m)

TransferPattern(m) ==
    \E i, j \in 1..Len(m) :
        /\ At(m, i, {"transfer", "send", "pay"})
        /\ j >= i + 2 /\ At(m, j, {"to"}) /\ j < Len(m)

HistoryPattern(m) ==
    LET histories == {"history", "histories"}
        transactionS == {"transaction", "transactions"}
    IN  \/ \E i \in 1..Len(m) :
            /\ At(m, i, {"show", "get", "view"})
            /\ \/ At(m, i + 1, histories)
               \/ At(m, i + 1, {"my", "transaction"}) /\ At(m, i + 2, histories)
               \/ At(m, i + 1, {"my"}) /\ At(m, i + 2, {"transaction"})
                    /\ At(m, i + 3, histories)
        \/ \E i \in 1..Len(m) :
            /\ At(m, i, {"last", "recent"})
            /\ \/ At(m, i + 1, transactionS)
               \/ IsNumeral(m, i + 1) /\ m[i + 1].cents = 0 /\ At(m, i + 2, transactionS)
        \/ \E i \in 1..Len(m) : At(m, i, {"transaction"}) /\ At(m, i + 1, {"list", "log"})
        \/ \E i \in 1..Len(m) : At(m, i, {"my"}) /\ At(m, i + 1, transactionS)

\* detectIntent: the families in their order, the first that matches wins.
detectIntent(m) ==
    IF BalancePattern(m) THEN "balance"
    ELSE IF DepositPattern(m) THEN "deposit"
    ELSE IF WithdrawPattern(m) THEN "withdraw"
    ELSE IF TransferPattern(m) THEN "transfer"
    ELSE IF HistoryPattern(m) THEN "history"
    ELSE "unknown"

\* FindStringSubmatch returns the leftmost match.
Leftmost(starts) == CHOOSE i \in starts : \A j \in starts : i <= j

\* extractAmount: amountPattern matches at the first numeral; the digits are
\* parsed as a float64, multiplied by 100 and truncated.
extractAmount(m) ==
    LET starts == {i \in 1..Len(m) : IsNumeral(m, i)}
    IN  IF starts = {} THEN 0
        ELSE LET t == m[Leftmost(starts)]
             IN  USDToCents(t.units * 100 + t.cents)

\* accountIDPattern, "(?:to\s+)?(?:account\s+)?(\d+)", tried at token i:
\* the index of the numeral whose integer digits the group captures, 0 when
\* the pattern does not match there.
accountIDPattern(m, i) ==
    IF IsNumeral(m, i) THEN i
    ELSE IF At(m, i, {"to", "account"}) /\ IsNumeral(m, i + 1) THEN i + 1
    ELSE IF At(m, i, {"to"}) /\ At(m, i + 1, {"account"}) /\ IsNumeral(m, i + 2)
        THEN i + 2
    ELSE 0

extractAccountID(m) ==
    LET starts == {i \in 1..Len(m) : accountIDPattern(m, i) # 0}
    IN  IF starts = {} THEN 0
        ELSE m[accountIDPattern(m, Leftmost(starts))].units

\* extractLimit: limitPattern, "(last|recent)\s+(\d+)", then the cap.
extractLimit(m) ==
    LET starts == {i \in 1..Len(m) : At(m, i, {"last", "recent"}) /\ IsNumeral(m, i + 1)}
    IN  IF starts = {} THEN 0
        ELSE LET limit == m[Leftmost(starts) + 1].units
             IN  IF limit > 100 THEN 100 ELSE limit

NoIntent == [Intent |-> "", Amount |-> 0, ToAccountID |-> 0, Limit |-> 0]

ParseIntent(message) ==
    LET intent == detectIntent(message)
    IN  [Intent |-> intent,
         Amount |-> IF intent \in {"deposit", "withdraw", "transfer"}
                        THEN extractAmount(message) ELSE 0,
         ToAccountID |-> IF intent = "transfer" THEN extractAccountID(message) ELSE 0,
         Limit |-> IF intent # "history" THEN 0
                   ELSE IF extractLimit(message) = 0 THEN 10
                   ELSE extractLimit(message)]

\* ValidateIntent: the error it returns, "nil" for none.
ValidateIntent_DestinationUnchecked(parsed) ==
    IF parsed.Intent \in {"deposit", "withdraw"} /\ parsed.Amount <= 0
        THEN "please_specify_a_valid_amount"
    ELSE IF parsed.Intent = "transfer" /\ parsed.Amount <= 0
        THEN "please_specify_a_valid_transfer_amount"
    ELSE IF parsed.Intent = "unknown" THEN "i_didnt_understand_that_request"
    ELSE "nil"
ValidateIntent(parsed) ==
    IF parsed.Intent \in {"deposit", "withdraw"} /\ parsed.Amount <= 0
        THEN "please_specify_a_valid_amount"
    ELSE IF parsed.Intent = "transfer" /\ parsed.Amount <= 0
        THEN "please_specify_a_valid_transfer_amount"
    ELSE IF parsed.Intent = "transfer" /\ parsed.ToAccountID = 0
        THEN "please_specify_the_destination_account_id"
    ELSE IF parsed.Intent = "unknown" THEN "i_didnt_understand_that_request"
    ELSE "nil"

\* The messages tried.
AmountTokens == {Numeral(0, 0), Numeral(0, 29), Numeral(0, 50), Numeral(7, 0), Numeral(50, 0)}
DestinationTokens == {Numeral(3, 0), Numeral(7, 0)}
LimitTokens == {Numeral(0, 0), Numeral(5, 0), Numeral(100, 0), Numeral(101, 0)}

TransferMessages ==
    {<<Word(v), a, Word("to"), Word("account"), d>> :
        v \in {"transfer", "send", "pay"}, a \in AmountTokens, d \in DestinationTokens}
    \cup {<<Word(v), a, Word("to"), d>> :
        v \in {"transfer", "send"}, a \in AmountTokens, d \in DestinationTokens}
    \cup {<<Word("transfer"), Word("money"), Word("to"), Word("account"), d>> :
        d \in DestinationTokens}
    \cup {<<Word("transfer"), a, Word("to"), Word("bob")>> : a \in AmountTokens}
    \cup {<<Word("transfer"), Word("my"), Word("balance"), Word("to"), Word("account"),
            Numeral(7, 0)>>,
          <<Word("transfer"), Numeral(50, 0), Word("to")>>}

HistoryMessages ==
    {<<Word("show"), Word(l), n, Word("transactions")>> :
        l \in {"last", "recent"}, n \in LimitTokens}
    \cup {<<Word("recent"), Word("transactions")>>,
          <<Word("show"), Word("my"), Word("transaction"), Word("history")>>,
          <<Word("my"), Word("transactions")>>}

OtherMessages ==
    {<<Word(v), a>> : v \in {"deposit", "withdraw"}, a \in AmountTokens}
    \cup {<<Word("take"), Word("out"), a>> : a \in AmountTokens}
    \cup {<<Word("deposit")>>, <<Word("withdraw"), Word("everything")>>,
          <<Word("balance")>>, <<Word("check"), Word("my"), Word("balance")>>,
          <<Word("how"), Word("much"), Word("money")>>,
          <<Word("hello")>>, <<>>}

Messages == TransferMessages \cup HistoryMessages \cup OtherMessages

\* The parser at rest, and with a message in hand.
NoMessage == [pc |-> "idle", message |-> <<>>, parsed |-> NoIntent, err |-> ""]
Received(message) == [NoMessage EXCEPT !.pc = "received", !.message = message]

Parse ==
    /\ parser.pc = "received"
    /\ parser' = [parser EXCEPT !.pc = "parsed",
                                !.parsed = ParseIntent(parser.message)]
    /\ UNCHANGED <<accounts, transfers, transactions, calls, issued, started, main,
                   stored>>

Validate ==
    /\ parser.pc = "parsed"
    /\ parser' = [parser EXCEPT !.pc = "validated",
                                !.err = ValidateIntent(parser.parsed)]
    /\ UNCHANGED <<accounts, transfers, transactions, calls, issued, started, main,
                   stored>>

(***************************************************************************)
(* Startup: main() and tigerbeetle.NewClient.                              *)
(***************************************************************************)
\* main() as it begins to connect to the ledger: attempt is the loop
\* variable, slept the seconds spent in time.Sleep, tbClient whether the
\* client exists, created the result code CreateAccounts returned for the
\* system account ("" before the call), err the last error of NewClient.
StartOfMain ==
    [pc |-> "connect", attempt |-> 1, slept |-> 0, tbClient |-> FALSE,
     created |-> "", err |-> ""]

\* main() once the services are constructed and the router runs (the loop
\* variable is out of scope).
Serving ==
    [pc |-> "serve", attempt |-> 0, slept |-> 0, tbClient |-> TRUE,
     created |-> "", err |-> ""]

\* Client.CreateAccounts for one account: the ledger's result code ("ok"
\* stands for the empty result list).
CreateAccountResult(id, flags) ==
    IF id \notin DOMAIN accounts THEN "ok"
    ELSE IF accounts[id].flags # flags THEN "exists_with_different_flags"
    ELSE "exists"

\* The ledger's accounts after it has created the accounts ids.
WithAccounts(ids, flags) ==
    [a \in DOMAIN accounts \cup ids |->
        IF a \in DOMAIN accounts THEN accounts[a] ELSE NewAccount(flags)]

\* The loop of main(): after a failed attempt it sleeps and tries again
\* while attempt < maxConnectionRetries, and ends the process otherwise.
RetriesLeft_Always(attempt) == TRUE
RetriesLeft(attempt) == attempt < maxConnectionRetries

AttemptFailed(m, err) ==
    IF RetriesLeft(m.attempt) THEN [m EXCEPT !.pc = "sleep", !.err = err]
                              ELSE [m EXCEPT !.pc = "fatal", !.err = err]

\* ensureSystemAccount: the error it returns, given whether the batch call
\* went through and the result code of the system account.
EnsureFailed_ExistsIsError(transportOK, result) == ~transportOK \/ result # "ok"
EnsureFailed(transportOK, result) == ~transportOK

\* NewClient, first half: tb.NewClient connects to the cluster.
Connect ==
    /\ main.pc = "connect"
    /\ \E ok \in BOOLEAN :
        main' = IF ok THEN [main EXCEPT !.pc = "ensure"]
                      ELSE AttemptFailed(main, "failed_to_create_client")
    /\ UNCHANGED <<accounts, transfers, transactions, calls, issued, started, parser, stored>>

\* NewClient, second half: ensureSystemAccount submits the system account;
\* the client is returned unless ensureSystemAccount returns an error.
EnsureSystemAccount ==
    /\ main.pc = "ensure"
    /\ \E transportOK \in BOOLEAN :
        LET result == CreateAccountResult(SystemAccountID, SystemAccountFlags)
        IN  /\ accounts' = IF transportOK /\ result = "ok"
                               THEN WithAccounts({SystemAccountID}, SystemAccountFlags)
                               ELSE accounts
            /\ main' = IF EnsureFailed(transportOK, result)
                           THEN AttemptFailed(
                                    [main EXCEPT !.created =
                                        IF transportOK THEN result ELSE ""],
                                    "failed_to_initialize_system_account")
                           ELSE [main EXCEPT !.pc = "seed", !.attempt = 0,
                                             !.tbClient = TRUE, !.err = "",
                                             !.created = result]
    /\ UNCHANGED <<transfers, transactions, calls, issued, started, parser, stored>>

\* time.Sleep between two attempts, then the next attempt.
Sleep ==
    /\ main.pc = "sleep"
    /\ main' = [main EXCEPT !.pc = "connect", !.attempt = @ + 1,
                            !.slept = @ + retryDelaySeconds]
    /\ UNCHANGED <<accounts, transfers, transactions, calls, issued, started, parser, stored>>

\* database.Seed, whose error main() only logs: with no user yet it creates
\* the test users, each with a ledger account, skipping those it fails to
\* create; then the services are constructed and the router runs.
Seed ==
    /\ main.pc = "seed"
    /\ \E created \in SUBSET {TigerBeetleAccountID[u] : u \in Users} :
        accounts' = IF DOMAIN accounts \subseteq {SystemAccountID}
                        THEN WithAccounts(created, UserAccountFlags)
                        ELSE accounts
    /\ main' = [Serving EXCEPT !.created = main.created]
    /\ UNCHANGED <<transfers, transactions, calls, issued, started, parser, stored>>

\* The process ends (log.Fatalf, or the signal handler's os.Exit) and is
\* started again: its requests are gone, the ledger and the database stay.
Restart ==
    /\ main.pc \in {"serve", "fatal"}
    /\ main' = StartOfMain
    /\ calls' = [w \in Workers |-> IdleCall]
    /\ UNCHANGED <<accounts, transfers, transactions, issued, started, parser, stored>>

(***************************************************************************)
(* The orchestrator on its own: direct callers, concurrent requests.       *)
(***************************************************************************)
Init ==
    /\ accounts = [a \in AccountIDs |->
                      IF a = SystemAccountID THEN NewAccount(SystemAccountFlags)
                                             ELSE NewAccount(UserAccountFlags)]
    /\ transfers = {}
    /\ transactions = {}
    /\ calls = [w \in Workers |-> IdleCall]
    /\ issued = {}
    /\ started = 0
    /\ main = Serving
    /\ parser = NoMessage
    /\ stored = NoRecord

Step(w) ==
    \/ CheckBalance(w)
    \/ VerifyDestination(w)
    \/ SubmitTransfer(w)
    \/ RecordTransaction(w)

Next ==
    \E w \in Workers :
        \/ Deposit(w)
        \/ Withdraw(w)
        \/ Transfer(w)
        \/ Step(w)

Spec == Init /\ [][Next]_vars

(***************************************************************************)
(* The chat layer in front of the orchestrator.                            *)
(***************************************************************************)
NextChat ==
    \E w \in Workers :
        \/ ProcessMessage(w)
        \/ ProcessConfirmation(w)
        \/ ReadTool(w)
        \/ Step(w)

ChatSpec == Init /\ [][NextChat]_vars

\* No request is in flight.
Sequential == \A w \in Workers : Free(w)

\* One chat request at a time, the completion service answering in every
\* way it can.
NextTurn ==
    \E w \in Workers :
        \/ Sequential /\ ProcessMessageAnyAnswer(w)
        \/ Sequential /\ ProcessConfirmation(w)
        \/ ReadToolAnyAnswer(w)
        \/ Step(w)

TurnSpec == Init /\ [][NextTurn]_vars

\* No chat request is in flight.
NoChatCall == \A v \in Workers : Free(v) \/ calls[v].entry = "api"

\* The caller of an in-flight chat request goes away: the context of the
\* HTTP request is cancelled.  Service.ProcessMessage and
\* Service.ProcessConfirmation hand context.Background() on, and the
\* orchestrator takes no context, so nothing else changes.
Cancel(w) ==
    /\ ~Free(w)
    /\ calls[w].entry \in {"message", "confirm"}
    /\ ~calls[w].cancelled
    /\ calls' = [Retired EXCEPT ![w].cancelled = TRUE]
    /\ UNCHANGED <<accounts, transfers, transactions, issued, started, main, parser, stored>>

\* The chat layer with callers that may cancel.
NextCancel ==
    \E w \in Workers :
        \/ ProcessMessage(w)
        \/ ProcessConfirmation(w)
        \/ ReadTool(w)
        \/ Step(w)
        \/ Cancel(w)

CancelSpec == Init /\ [][NextCancel]_vars

\* Both doors of the orchestrator, MaxTurns requests in all: concurrent
\* calls of the transaction API, and chat requests between them.
NextAccess ==
    \E w \in Workers :
        \/ started < MaxTurns /\ NoChatCall /\ Deposit(w)
        \/ started < MaxTurns /\ NoChatCall /\ Withdraw(w)
        \/ started < MaxTurns /\ NoChatCall /\ Transfer(w)
        \/ Sequential /\ ProcessMessage(w)
        \/ Sequential /\ ProcessConfirmation(w)
        \/ ReadTool(w)
        \/ Step(w)

AccessSpec == Init /\ [][NextAccess]_vars

\* The intent parser on its own: every message of Messages is parsed, then
\* validated.
InitIntent ==
    /\ accounts = [a \in AccountIDs |->
                      IF a = SystemAccountID THEN NewAccount(SystemAccountFlags)
                                             ELSE NewAccount(UserAccountFlags)]
    /\ transfers = {}
    /\ transactions = {}
    /\ calls = [w \in Workers |-> IdleCall]
    /\ issued = {}
    /\ started = 0
    /\ main = Serving
    /\ parser \in {Received(m) : m \in Messages}
    /\ stored = NoRecord

NextIntent ==
    \/ Parse
    \/ Validate

IntentSpec == InitIntent /\ [][NextIntent]_vars

\* The process from its start: main() connects to the ledger, and once the
\* router runs the registered users' deposits are served one at a time.
InitStartup ==
    /\ accounts = <<>>
    /\ transfers = {}
    /\ transactions = {}
    /\ calls = [w \in Workers |-> IdleCall]
    /\ issued = {}
    /\ started = 0
    /\ main = StartOfMain
    /\ parser = NoMessage
    /\ stored = NoRecord

NextStartup ==
    \/ Connect
    \/ EnsureSystemAccount
    \/ Sleep
    \/ Seed
    \/ Restart
    \/ \E w \in Workers :
        \/ /\ main.pc = "serve" /\ Sequential
           /\ Deposit(w)
           /\ TigerBeetleAccountID[calls'[w].user] \in DOMAIN accounts
        \/ SubmitTransfer(w)
        \/ RecordTransaction(w)

StartupSpec == InitStartup /\ [][NextStartup]_vars

\* The history is read between operations: requests are served one after
\* another, each one starting when no other is in flight.

NextHistory ==
    \E w \in Workers :
        \/ Sequential /\ Deposit(w)
        \/ Sequential /\ Withdraw(w)
        \/ Sequential /\ Transfer(w)
        \/ Sequential /\ GetHistory(w)
        \/ Sequential /\ HandleGetHistory(w)
        \/ Step(w)

HistorySpec == Init /\ [][NextHistory]_vars

(***************************************************************************)
(* Vocabulary of the properties.                                           *)
(***************************************************************************)
MoneyTools == {"deposit", "withdraw", "transfer"}
DebitOps == {"withdraw", "transfer"}

StoresUnchanged == UNCHANGED <<accounts, transfers, transactions>>

\* Worker w takes a step of its request in this transition.
Moves(w) == calls'[w] # calls[w] /\ calls'[w].pc # "idle"

RECURSIVE SumAmounts(_)
SumAmounts(S) ==
    IF S = {} THEN 0
    ELSE LET t == CHOOSE x \in S : TRUE IN t.amount + SumAmounts(S \ {t})

Credited(a) == SumAmounts({t \in transfers : t.credit_account_id = a})
Debited(a) == SumAmounts({t \in transfers : t.debit_account_id = a})

\* The committed transfer a call submitted, as a set (empty or one transfer).
TransferOf(c) ==
    {t \in transfers :
        /\ t.id = c.transferID
        /\ t.amount = c.amount
        /\ t.debit_account_id = DebitAccount(c)
        /\ t.credit_account_id = CreditAccount(c)
        /\ t.code = Code[c.op]}

RecordsOf(id) ==
    {r \in transactions : r.tigerbeetle_transfer_id = Uint128ToHex(id)}

(***************************************************************************)
(* C1.  ExecuteTool called with confirmed = false for deposit, withdraw   *)
(* or transfer, for any user and any argument map, does not invoke the    *)
(* handler, leaves the ledger and the audit store as they are, and        *)
(* returns a result with RequiresConfirmation = true that carries the     *)
(* tool name and the argument map it was given.                           *)
(***************************************************************************)
C1_Gated(c) ==
    (c.entry = "message" /\ ~c.confirmed /\ c.tool \in MoneyTools) =>
        /\ c.pc = "done"
        /\ c.handler = "" /\ c.op = ""
        /\ ~c.committed /\ ~c.audited
        /\ c.response.requiresConfirmation
        /\ c.response.toolName = c.tool
        /\ c.response.arguments = c.args

C1_UnconfirmedCallIsGated ==
    /\ [](\A w \in Workers : C1_Gated(calls[w]))
    /\ [][\A w \in Workers :
            (Moves(w) /\ calls'[w].entry = "message" /\ ~calls'[w].confirmed
                /\ calls'[w].tool \in MoneyTools) => StoresUnchanged]_vars

C1_Witness ==
    \E w \in Workers :
        /\ calls[w].entry = "message" /\ ~calls[w].confirmed
        /\ calls[w].tool = "transfer"
        /\ calls[w].args = Arguments(Number(29), Str(<<"3">>))
        /\ calls[w].response.requiresConfirmation
        /\ calls[w].pc = "done"

(***************************************************************************)
(* C2.  A ProcessMessage turn never changes a ledger balance and never    *)
(* writes an audit record, whatever the user wrote and whatever the       *)
(* completion service replied: the tool call of the reply goes to         *)
(* ExecuteTool with confirmed = false, so no deposit, withdraw or         *)
(* transfer handler runs in the turn.                                     *)
(***************************************************************************)
C2_MessageTurnMovesNoMoney ==
    /\ [](\A w \in Workers :
            calls[w].entry = "message" =>
                /\ ~calls[w].confirmed
                /\ calls[w].handler \notin MoneyTools
                /\ calls[w].op = ""
                /\ ~calls[w].committed /\ ~calls[w].audited)
    /\ [][\A w \in Workers :
            (Moves(w) /\ calls'[w].entry = "message") => StoresUnchanged]_vars

C2_Witness ==
    \E w \in Workers :
        /\ calls[w].entry = "message"
        /\ calls[w].handler = "get_balance"
        /\ calls[w].pc = "done" /\ calls[w].result = "nil"
        /\ calls[w].balance > 0

(***************************************************************************)
(* C3.  As claimed: every handler execution that ProcessConfirmation      *)
(* triggers is preceded by a CONFIRMATION_REQUIRED response sent to the   *)
(* same user for the same tool name and the same arguments.               *)
(***************************************************************************)
C3_PrecededByProposal ==
    \A w \in Workers :
        (calls[w].entry = "confirm" /\ calls[w].handler \in MoneyTools) =>
            <<calls[w].user, calls[w].tool, calls[w].args>> \in issued

(***************************************************************************)
(* C3, amended.  A deposit, withdraw or transfer handler runs through the *)
(* chat layer only inside a ProcessConfirmation call made with            *)
(* confirmed = true, and it runs for the user, the tool name and the      *)
(* arguments of that very call; no earlier CONFIRMATION_REQUIRED response *)
(* is needed, since the gate keeps no record of what it proposed.         *)
(***************************************************************************)
C3_ExecutedOnlyWhenConfirmed ==
    \A w \in Workers :
        LET c == calls[w]
        IN  (c.entry # "api" /\ (c.handler \in MoneyTools \/ c.op # "")) =>
                /\ c.entry = "confirm"
                /\ c.confirmed
                /\ c.handler = c.tool
                /\ c.op # "" =>
                    /\ c.op = c.tool
                    /\ c.args.amount.type = "float64"
                    /\ c.amount = USDToCents(c.args.amount.cents)
                    /\ c.op = "transfer" =>
                        c.dest = ParseUint(c.args.to_account_id.digits)

C3_Witness ==
    \E w \in Workers :
        /\ calls[w].entry = "confirm" /\ calls[w].confirmed
        /\ calls[w].handler = "transfer"
        /\ calls[w].committed
        /\ <<calls[w].user, calls[w].tool, calls[w].args>> \notin issued

(***************************************************************************)
(* C4.  ExecuteTool called with confirmed = true for a tool that needs    *)
(* confirmation invokes the handler exactly once; a confirmed withdraw    *)
(* that the ledger accepts changes the user's balance exactly once, by    *)
(* exactly the requested amount: one transfer of that amount is committed.*)
(***************************************************************************)
C4_ConfirmedWithdrawMovesRequestedAmount ==
    \A w \in Workers :
        LET c == calls[w]
        IN  (c.entry = "confirm" /\ c.confirmed /\ c.tool = "withdraw"
                /\ c.pc = "done" /\ c.result = "nil") =>
                /\ c.handler = "withdraw"
                /\ c.committed
                /\ \E t \in transfers :
                    /\ t.id = c.transferID
                    /\ t.debit_account_id = TigerBeetleAccountID[c.user]
                    /\ t.amount = c.args.amount.cents

(***************************************************************************)
(* C5.  In every reachable state, under any interleaving of Deposit,      *)
(* Withdraw and Transfer, every user account (created with the            *)
(* DebitsMustNotExceedCredits flag) has a balance of posted credits minus *)
(* posted debits that is not negative, and GetBalance returns it.         *)
(***************************************************************************)
C5_UserBalancesNeverNegative ==
    \A u \in Users :
        LET a == TigerBeetleAccountID[u]
        IN  /\ accounts[a].credits_posted = Credited(a)
            /\ accounts[a].debits_posted = Debited(a)
            /\ GetBalance(a) = Credited(a) - Debited(a)
            /\ GetBalance(a) >= 0

C5_Witness ==
    \E u \in Users, w \in Workers :
        /\ accounts[TigerBeetleAccountID[u]].debits_posted > 0
        /\ GetBalance(TigerBeetleAccountID[u]) = 0
        /\ calls[w].user = u
        /\ calls[w].ledgerResult = "exceeds_credits"

(***************************************************************************)
(* C6.  When Deposit, Withdraw or Transfer returns an error, the call has *)
(* committed no transfer and written no audit record, and the step that   *)
(* returns the error changes nothing; when it returns nil, exactly one    *)
(* transfer, of the requested amount, was committed by it.                *)
(***************************************************************************)
C6_Outcome(c) ==
    (c.pc = "done" /\ c.op # "") =>
        IF c.result = "nil"
            THEN c.committed /\ Cardinality(TransferOf(c)) = 1
            ELSE ~c.committed /\ ~c.audited /\ ~c.auditFailed

C6_ErrorMeansNoEffect ==
    /\ [](\A w \in Workers : C6_Outcome(calls[w]))
    /\ [][\A w \in Workers :
            (Moves(w) /\ calls'[w].pc = "done" /\ calls'[w].op # ""
                /\ calls'[w].result # "nil") => StoresUnchanged]_vars

C6_Witness ==
    \E w \in Workers :
        /\ calls[w].pc = "done" /\ calls[w].op = "deposit"
        /\ calls[w].result = "failed_to_create_transfer"
        /\ transfers # {}

(***************************************************************************)
(* C7.  When concurrent Withdraw/Transfer calls on one account have all   *)
(* passed the pre-flight check and one submits more than the account      *)
(* still holds, the ledger rejects that submission; a rejected call       *)
(* returns an error, writes no audit record and changes no balance.       *)
(***************************************************************************)
C7_Overdraws(w) ==
    /\ calls[w].pc = "submit" /\ calls[w].op \in DebitOps
    /\ calls'[w].ledgerResult # ""
    /\ calls[w].amount > GetBalance(TigerBeetleAccountID[calls[w].user])

C7_LedgerDecides ==
    /\ [](\A w \in Workers :
            LET c == calls[w]
            IN  /\ (c.op \in DebitOps /\ c.pc \in {"lookup", "submit", "audit"})
                        => c.balance >= c.amount
                /\ c.ledgerResult \notin {"", "ok"} =>
                        /\ c.pc = "done" /\ c.result = "transfer_failed"
                        /\ ~c.committed /\ ~c.audited /\ ~c.auditFailed)
    /\ [][\A w \in Workers :
            C7_Overdraws(w) =>
                /\ calls'[w].ledgerResult \notin {"", "ok"}
                /\ StoresUnchanged]_vars

C7_Witness ==
    \E w \in Workers :
        /\ calls[w].pc = "done" /\ calls[w].op = "withdraw"
        /\ calls[w].balance >= calls[w].amount
        /\ calls[w].ledgerResult = "exceeds_credits"
        /\ calls[w].result = "transfer_failed"

(***************************************************************************)
(* C8.  If the ledger transfer commits and Repository.Create fails, the   *)
(* operation still returns nil, the transfer stays committed, and what is *)
(* missing is just the audit record of that transfer.                     *)
(***************************************************************************)
C8_AuditFailureIsSwallowed ==
    \A w \in Workers :
        LET c == calls[w]
        IN  c.auditFailed =>
                /\ c.pc = "done" /\ c.result = "nil"
                /\ c.committed /\ Cardinality(TransferOf(c)) = 1
                /\ RecordsOf(c.transferID) = {}

C8_Witness ==
    \E w \in Workers :
        /\ calls[w].auditFailed /\ calls[w].op = "withdraw"
        /\ calls[w].result = "nil"
        /\ transactions # {}

(***************************************************************************)
(* C9.  Every audit record has status completed and mirrors a transfer    *)
(* the ledger had committed when the record was written: the same         *)
(* transfer ID, amount, debit account and credit account; no record       *)
(* exists for a transfer that did not commit, and no two records carry    *)
(* the same transfer ID.                                                   *)
(***************************************************************************)
C9_AuditMirrorsLedger ==
    /\ \A r \in transactions :
        /\ r.status = "completed"
        /\ \E t \in transfers :
            /\ r.tigerbeetle_transfer_id = Uint128ToHex(t.id)
            /\ r.amount = t.amount
            /\ r.debit_account_id = t.debit_account_id
            /\ r.credit_account_id = t.credit_account_id
            /\ Code[r.type] = t.code
    /\ \A r1, r2 \in transactions :
        r1.tigerbeetle_transfer_id = r2.tigerbeetle_transfer_id => r1 = r2

C9_Witness ==
    \E r1, r2 \in transactions :
        /\ r1.type = "transfer" /\ r1.recipient_user_id = "u2"
        /\ r2.type = "deposit"
        /\ Cardinality(transfers) > Cardinality(transactions)

(***************************************************************************)
(* C10.  When the balance b that Withdraw(u, a) or Transfer(u, dest, a)   *)
(* reads is below a, the call returns the insufficient-funds error,       *)
(* submits no transfer, writes no audit record and changes no balance.    *)
(***************************************************************************)
C10_Rejected(c) ==
    (c.op \in DebitOps /\ c.balance >= 0 /\ c.amount > c.balance) =>
        /\ c.pc = "done" /\ c.result = "insufficient_funds"
        /\ c.ledgerResult = "" /\ c.transferID = 0
        /\ ~c.committed /\ ~c.audited /\ ~c.auditFailed

C10_InsufficientFunds ==
    /\ [](\A w \in Workers : C10_Rejected(calls[w]))
    /\ [][\A w \in Workers :
            (calls[w].pc = "balance" /\ calls'[w].balance >= 0
                /\ calls[w].amount > GetBalance(TigerBeetleAccountID[calls[w].user]))
                => /\ calls'[w].result = "insufficient_funds"
                   /\ calls'[w].balance = GetBalance(TigerBeetleAccountID[calls[w].user])
                   /\ StoresUnchanged]_vars

C10_Witness ==
    \E w \in Workers :
        /\ calls[w].op = "transfer" /\ calls[w].pc = "done"
        /\ calls[w].balance = 1 /\ calls[w].amount = 2
        /\ calls[w].result = "insufficient_funds"

(***************************************************************************)
(* C11.  For an existing user u, a positive amount and a destination      *)
(* account ID the ledger does not have, Transfer(u, dest, amount) returns *)
(* the destination-not-found error whatever u's balance is (the reads it  *)
(* makes on the way succeeding), and changes no balance and no record.    *)
(***************************************************************************)
C11_UnknownDestinationIsNotFound ==
    \A w \in Workers :
        LET c == calls[w]
        IN  (/\ c.op = "transfer" /\ c.pc = "done"
             /\ c.amount > 0
             /\ c.dest \notin DOMAIN accounts
             /\ c.result \notin {"user_lookup_failed", "failed_to_check_balance"}) =>
                /\ c.result = "destination_account_not_found"
                /\ ~c.committed /\ ~c.audited

\* The case C11 is about, as the code handles it when the balance allows.
C11_Witness ==
    \E w \in Workers :
        /\ calls[w].op = "transfer" /\ calls[w].pc = "done"
        /\ calls[w].dest = UnknownAccountID
        /\ calls[w].balance >= calls[w].amount
        /\ calls[w].result = "destination_account_not_found"

(***************************************************************************)
(* C12.  Deposit, Withdraw and Transfer called with amount <= 0 return    *)
(* the validation error before any I/O: the call reads no user, reads no  *)
(* balance, looks up no account and submits no transfer.                  *)
(***************************************************************************)
C12_AmountCheckedBeforeIO ==
    \A w \in Workers :
        LET c == calls[w]
        IN  (c.op \in {"deposit", "withdraw", "transfer"} /\ c.amount <= 0) =>
                /\ c.pc = "done" /\ c.result = "amount_must_be_positive"
                /\ c.io = 0 /\ c.submissions = 0
                /\ c.balance = -1 /\ c.recipient = ""
                /\ c.transferID = 0 /\ c.ledgerResult = ""
                /\ ~c.committed /\ ~c.audited /\ ~c.auditFailed

C12_Witness ==
    \E w \in Workers :
        /\ calls[w].op = "transfer" /\ calls[w].amount = 0
        /\ calls[w].dest = UnknownAccountID
        /\ calls[w].result = "amount_must_be_positive"
        /\ transfers # {}

(***************************************************************************)
(* C13.  Every transfer ID that Deposit, Withdraw or Transfer generates   *)
(* is fresh: it differs from every ID the ledger has seen before, so no   *)
(* submission is answered with the ledger's 'exists' result and no valid  *)
(* operation fails because of an ID collision.                            *)
(***************************************************************************)
C13_TransferIDsAreFresh ==
    \A w \in Workers :
        calls[w].ledgerResult \notin {"exists", "exists_with_different_fields"}

(***************************************************************************)
(* C14.  One invocation of Deposit, Withdraw or Transfer hands at most    *)
(* one batch, holding one transfer, to the ledger: after a transport      *)
(* error or a rejection it returns without submitting again, so it never  *)
(* applies funds twice.                                                   *)
(***************************************************************************)
C14_AtMostOneSubmission ==
    /\ \A w \in Workers :
        LET c == calls[w]
        IN  /\ c.submissions <= 1
            /\ (c.submissions = 1 /\ ~c.committed) =>
                    /\ c.pc = "done"
                    /\ c.result \in {"failed_to_create_transfer", "transfer_failed"}
            /\ c.committed =>
                    /\ c.submissions = 1
                    /\ Cardinality({t \in transfers : t.id = c.transferID}) = 1
    /\ Cardinality(transfers) <= started

C14_Witness ==
    \E w \in Workers :
        /\ calls[w].submissions = 1 /\ calls[w].pc = "done"
        /\ calls[w].result = "failed_to_create_transfer"
        /\ calls[w].op = "withdraw"

\* The balance of an account after the step.
BalanceAfter(a) == accounts'[a].credits_posted - accounts'[a].debits_posted

\* Worker w's submission commits in this step.
Commits(w) == calls[w].pc = "submit" /\ calls'[w].committed

NoOtherCallOf(w) ==
    \A v \in Workers \ {w} : calls[v].pc \in {"idle", "done"}

(***************************************************************************)
(* C15.  For a user u with balance b, a successful Deposit(u, x) makes    *)
(* GetBalance(u) = b + x, and a successful Withdraw(u, y), y <= balance,  *)
(* makes it the balance minus y (0 -> 10050 -> 7050): each commit moves   *)
(* u's balance by exactly the amount, and a call that returned nil has    *)
(* committed.                                                             *)
(***************************************************************************)
C15_DepositThenWithdraw ==
    /\ [](\A w \in Workers :
            (calls[w].op \in {"deposit", "withdraw"} /\ calls[w].result = "nil")
                => calls[w].committed)
    /\ [][\A w \in Workers :
            LET c == calls[w]
                a == TigerBeetleAccountID[c.user]
            IN  (Commits(w) /\ c.op \in {"deposit", "withdraw"}) =>
                    /\ c.op = "deposit" => BalanceAfter(a) = GetBalance(a) + c.amount
                    /\ c.op = "withdraw" =>
                        /\ c.amount <= GetBalance(a)
                        /\ BalanceAfter(a) = GetBalance(a) - c.amount
                    /\ \A u \in Users \ {c.user} :
                        BalanceAfter(TigerBeetleAccountID[u])
                            = GetBalance(TigerBeetleAccountID[u])]_vars

C15_Witness ==
    \E w \in Workers :
        /\ calls[w].op = "withdraw" /\ calls[w].result = "nil"
        /\ calls[w].user = "u1"
        /\ calls[w].balance = 2 /\ calls[w].amount = 1
        /\ GetBalance(TigerBeetleAccountID["u1"]) = 1
        /\ NoOtherCallOf(w)

(***************************************************************************)
(* C16.  A successful Transfer(A, accountOf(B), x) between two distinct   *)
(* users lowers A's balance by exactly x, raises B's balance by exactly   *)
(* x, and changes the balance of no other account, the system account     *)
(* included.                                                              *)
(***************************************************************************)
C16_TransferMovesExactlyX ==
    /\ [](\A w \in Workers :
            (calls[w].op = "transfer" /\ calls[w].result = "nil") =>
                /\ calls[w].committed
                /\ calls[w].dest # TigerBeetleAccountID[calls[w].user])
    /\ [][\A w \in Workers :
            LET c == calls[w]
                from == TigerBeetleAccountID[c.user]
            IN  (Commits(w) /\ c.op = "transfer") =>
                    \A a \in AccountIDs :
                        BalanceAfter(a) =
                            IF a = from THEN GetBalance(a) - c.amount
                            ELSE IF a = c.dest THEN GetBalance(a) + c.amount
                            ELSE GetBalance(a)]_vars

C16_Witness ==
    \E w \in Workers :
        /\ calls[w].op = "transfer" /\ calls[w].result = "nil"
        /\ calls[w].user = "u1" /\ calls[w].dest = TigerBeetleAccountID["u2"]
        /\ calls[w].amount = 1
        /\ GetBalance(TigerBeetleAccountID["u1"]) = 0
        /\ GetBalance(TigerBeetleAccountID["u2"]) = 1
        /\ GetBalance(SystemAccountID) = -1

(***************************************************************************)
(* C17.  For every successful Transfer whose audit record is written: if  *)
(* the destination account is the account of a known user, the record's   *)
(* RecipientUserID is that user's ID; if no user owns it, RecipientUserID  *)
(* is unset and the record carries the raw destination account ID as      *)
(* CreditAccountID.                                                       *)
(***************************************************************************)
C17_RecipientIsLinked ==
    \A r \in transactions :
        r.type = "transfer" =>
            /\ r.recipient_user_id = UserOfAccount(r.credit_account_id)
            /\ \E t \in transfers :
                /\ r.tigerbeetle_transfer_id = Uint128ToHex(t.id)
                /\ r.credit_account_id = t.credit_account_id

\* A transfer record that is linked to the user who owns the destination.
C17_Witness ==
    \E r \in transactions :
        /\ r.type = "transfer" /\ r.user_id = "u1"
        /\ r.credit_account_id = TigerBeetleAccountID["u2"]
        /\ r.recipient_user_id = "u2"

\* The audit records of the operations that involve user u, as initiator or
\* as counterparty, newest first.
RecordsInvolving(u) ==
    NewestFirst({r \in transactions :
                    \/ r.debit_account_id = TigerBeetleAccountID[u]
                    \/ r.credit_account_id = TigerBeetleAccountID[u]})

\* Pages p, p + 1, ... of u's history, one after the other.
RECURSIVE PagesFrom(_, _, _)
PagesFrom(u, p, limit) ==
    IF p > MaxRequests + 1 THEN <<>>
    ELSE GetAllByUserID(u, p, limit) \o PagesFrom(u, p + 1, limit)

(***************************************************************************)
(* C18.  After N completed operations involving user u (as initiator or   *)
(* as counterparty) whose audit records were written, GetHistory(u, 1, L) *)
(* returns the min(N, L) newest records, newest first, and the following  *)
(* pages the following slices: consecutive pages do not overlap, skip     *)
(* nothing, and together list every record of u exactly once.             *)
(***************************************************************************)
C18_PagesListEveryRecordOnce ==
    \A u \in Users, limit \in {1, 2, 10} :
        LET all == RecordsInvolving(u)
            first == GetAllByUserID(u, 1, limit)
        IN  /\ Len(first) = IF Len(all) < limit THEN Len(all) ELSE limit
            /\ \A i \in 1..Len(first) : first[i] = all[i]
            /\ PagesFrom(u, 1, limit) = all

\* The second page of a history of two records, read one record a page.
C18_Witness ==
    \E w \in Workers :
        /\ calls[w].op = "history" /\ calls[w].result = "nil"
        /\ calls[w].page = 2 /\ calls[w].limit = 1
        /\ Len(RecordsInvolving(calls[w].user)) = 2
        /\ calls[w].history = <<RecordsInvolving(calls[w].user)[2]>>

IsDecline(c) == c.entry = "confirm" /\ ~c.confirmed

C21_TurnHaltsAtConfirmation ==
    \A w \in Workers :
        LET c == calls[w]
        IN  (c.entry = "message" /\ c.tool \in MoneyTools) =>
                /\ c.pc = "done" /\ c.result = "nil"
                /\ c.response = [reply |-> "confirmation_message",
                                 requiresConfirmation |-> TRUE,
                                 toolName |-> c.tool, arguments |-> c.args,
                                 data |-> <<>>]
                /\ <<c.user, c.tool, c.args>> \in issued
                /\ c.completions = 1 /\ c.summary = ""
                /\ c.handler = "" /\ c.toolResult = NoToolResult
                /\ c.op = "" /\ c.io = 0

\* A withdrawal the user could afford is proposed, not made.
C21_Witness ==
    \E w \in Workers :
        /\ calls[w].entry = "message" /\ calls[w].tool = "withdraw"
        /\ calls[w].args = Arguments(Number(29), NoArgs.to_account_id)
        /\ calls[w].response.requiresConfirmation
        /\ calls[w].completions = 1
        /\ GetBalance(TigerBeetleAccountID[calls[w].user]) = 28

\* Call c is a ProcessMessage turn whose first answer came with a choice
\* and without a tool call that could be parsed.
IsTextTurn(c) == c.entry = "message" /\ c.error = NoError /\ c.tool = ""

(***************************************************************************)
(* C22.  As claimed: when the answer holds no tool call, ProcessMessage   *)
(* returns the answer's text verbatim as Reply, for every text, the empty *)
(* text included, with RequiresConfirmation = false, and runs no tool.    *)
(***************************************************************************)
C22_TextIsReturnedVerbatim ==
    \A w \in Workers :
        LET c == calls[w]
        IN  IsTextTurn(c) =>
                /\ c.result = "nil"
                /\ c.response.reply = c.content
                /\ ~c.response.requiresConfirmation
                /\ c.handler = ""

(***************************************************************************)
(* C22, amended.  When the answer holds no tool call, ProcessMessage      *)
(* returns the answer's text verbatim as Reply if the text is not empty,  *)
(* and a fixed sentence (I'm not sure how to help with that ...) if it is *)
(* empty; in both cases RequiresConfirmation = false, no tool runs and no *)
(* second completion request is sent.                                     *)
(***************************************************************************)
C22_TextOrFixedSentence ==
    \A w \in Workers :
        LET c == calls[w]
        IN  IsTextTurn(c) =>
                /\ c.pc = "done" /\ c.result = "nil"
                /\ c.content # "" => c.response.reply = c.content
                /\ c.content = "" => c.response.reply = "not_sure_how_to_help"
                /\ ~c.response.requiresConfirmation
                /\ c.response.toolName = "" /\ c.response.data = <<>>
                /\ c.handler = "" /\ c.op = "" /\ c.io = 0
                /\ c.completions = 1

\* An answer with no text and no tool call, after money has moved.
C22_Witness ==
    \E w \in Workers :
        /\ IsTextTurn(calls[w]) /\ calls[w].pc = "done"
        /\ calls[w].content = ""
        /\ calls[w].response.reply = "not_sure_how_to_help"
        /\ transfers # {}

\* The ways the summarising request can fail.
SummaryFailures == {"transport_error", "http_error", "no_choices", "empty_text"}

(***************************************************************************)
(* C23.  After get_balance or get_transaction_history has run in a        *)
(* ProcessMessage turn, any failure of the second, summarising completion *)
(* request (transport error, status other than 200, no choices, empty     *)
(* content) makes the turn return the summary formatToolResponse builds   *)
(* from the tool's result, together with the tool's data, never an error. *)
(***************************************************************************)
C23_SummaryFailureFallsBack ==
    \A w \in Workers :
        LET c == calls[w]
        IN  (c.entry = "message" /\ c.summary \in SummaryFailures) =>
                /\ c.pc = "done" /\ c.result = "nil"
                /\ c.handler \in {"get_balance", "get_transaction_history"}
                /\ c.completions = 2
                /\ c.toolResult.success
                /\ c.response.reply = c.toolResult.message
                /\ c.response.reply = IF c.handler = "get_balance"
                                          THEN "current_balance"
                                          ELSE "transactions_found"
                /\ c.response.data = c.toolResult.data
                /\ c.response.data = <<c.balance>>
                /\ ~c.response.requiresConfirmation

\* The balance was read and the summarising request was answered with a
\* status other than 200.
C23_Witness ==
    \E w \in Workers :
        /\ calls[w].entry = "message" /\ calls[w].handler = "get_balance"
        /\ calls[w].summary = "http_error"
        /\ calls[w].response.reply = "current_balance"
        /\ calls[w].response.data = <<28>>

\* Call c is a ProcessMessage turn whose first completion request was
\* answered with a status other than 200.
GotHTTPError(c) == c.entry = "message" /\ c.status # 0

\* The four errors the claim lists.
SanitizedSet ==
    {[kind |-> k, status |-> 0] :
        k \in {"temporarily_busy", "authentication_error",
               "invalid_request_format", "temporarily_unavailable"}}

(***************************************************************************)
(* C24.  As claimed: the error callOpenRouter produces for an answer      *)
(* whose status is not 200 is one of four fixed errors (rate-limited,     *)
(* auth-error, bad-request, unavailable) and does not depend on the body  *)
(* of the answer.                                                         *)
(***************************************************************************)
C24_ErrorIsOneOfFour ==
    \A w \in Workers :
        GotHTTPError(calls[w]) =>
            /\ calls[w].error \in SanitizedSet
            /\ \A b \in Bodies :
                CallOpenRouterError(calls[w].status, b) = calls[w].error

(***************************************************************************)
(* C24, amended.  The error callOpenRouter produces for an answer whose   *)
(* status is not 200 is decided by the status code alone: 429 gives the   *)
(* rate-limited error, 401 and 403 the auth error, 400 the bad-request    *)
(* error, 503 and 504 the unavailable error, and every other status a     *)
(* fifth error that carries the status code and nothing else.  Two        *)
(* answers with the same status and different bodies give the same error, *)
(* and the turn returns an error without a reply.                         *)
(***************************************************************************)
C24_ErrorDependsOnStatusOnly ==
    \A w \in Workers :
        LET c == calls[w]
        IN  GotHTTPError(c) =>
                /\ c.body \in Bodies
                /\ c.error.kind =
                      IF c.status = 429 THEN "temporarily_busy"
                      ELSE IF c.status = 401 \/ c.status = 403
                          THEN "authentication_error"
                      ELSE IF c.status = 400 THEN "invalid_request_format"
                      ELSE IF c.status = 503 \/ c.status = 504
                          THEN "temporarily_unavailable"
                      ELSE "service_error"
                /\ c.error.status = IF c.error.kind = "service_error"
                                        THEN c.status ELSE 0
                /\ \A b \in Bodies : CallOpenRouterError(c.status, b) = c.error
                /\ c.pc = "done" /\ c.result = "failed_to_process_message"
                /\ c.response = NoResponse

\* A status the switch does not name, with a body that must not leak.
C24_Witness ==
    \E w \in Workers :
        /\ GotHTTPError(calls[w])
        /\ calls[w].status = 500
        /\ calls[w].body = "quota of key sk-1 exceeded"
        /\ calls[w].error = [kind |-> "service_error", status |-> 500]
        /\ calls[w].result = "failed_to_process_message"

(***************************************************************************)
(* C25.  Startup makes at most maxConnectionRetries (10) attempts to      *)
(* create the ledger client and sleeps the fixed delay between two        *)
(* attempts; it stops at the first success; when all attempts have failed *)
(* the process ends there, without a client.  The services are            *)
(* constructed, and requests served, only with a ledger client.           *)
(***************************************************************************)
C25_BoundedStartup ==
    /\ [](/\ main.attempt \in 0..maxConnectionRetries
          /\ main.pc \in {"connect", "ensure", "sleep", "fatal"} =>
                /\ main.attempt >= 1 /\ ~main.tbClient
                /\ main.slept = (main.attempt - 1) * retryDelaySeconds
          /\ main.pc = "sleep" => main.attempt < maxConnectionRetries
          /\ main.pc = "fatal" =>
                main.attempt = maxConnectionRetries /\ main.err # ""
          /\ main.pc \in {"seed", "serve"} => main.tbClient
          /\ \A w \in Workers :
                calls[w].pc # "idle" => main.pc = "serve" /\ main.tbClient)
    /\ [][/\ main.pc = "fatal" => main' = StartOfMain
          /\ (~main.tbClient /\ main'.tbClient) =>
                main.pc = "ensure" /\ main'.pc = "seed"
          /\ main.tbClient => (main'.tbClient \/ main' = StartOfMain)
          /\ main'.attempt > main.attempt =>
                /\ main.pc \in {"sleep", "serve"}
                /\ main'.attempt = main.attempt + 1
          /\ \A w \in Workers :
                Moves(w) => main.pc = "serve" /\ main.tbClient]_vars

\* Ten attempts have failed, in a run that follows one that took deposits.
C25_Witness ==
    /\ main.pc = "fatal"
    /\ main.attempt = 10 /\ main.slept = 18
    /\ ~main.tbClient
    /\ transfers # {}

(***************************************************************************)
(* C26.  Whenever NewClient has returned a client, the system account     *)
(* (ID 1) exists in the ledger.  A create-account result of "exists" is   *)
(* a success: NewClient fails in ensureSystemAccount only when the call   *)
(* itself failed, and a bootstrap that finds the system account leaves    *)
(* the ledger's accounts as they were.                                    *)
(***************************************************************************)
C26_BootstrapIsIdempotent ==
    /\ [](main.tbClient => SystemAccountID \in DOMAIN accounts)
    /\ [][main.pc = "ensure" =>
            /\ SystemAccountID \in DOMAIN accounts => accounts' = accounts
            /\ main'.tbClient => SystemAccountID \in DOMAIN accounts'
            /\ main'.created # "" => main'.tbClient /\ main'.pc = "seed"
            /\ main'.pc \in {"sleep", "fatal"} =>
                  main'.err = "failed_to_initialize_system_account"]_vars

\* A later bootstrap found the system account, which deposits had debited,
\* and returned the client.
C26_Witness ==
    /\ main.tbClient
    /\ main.created = "exists"
    /\ SystemAccountID \in DOMAIN accounts
    /\ accounts[SystemAccountID].debits_posted > 0

(***************************************************************************)
(* C27.  Users move money out of their own account only: whenever the     *)
(* balance of a user's account goes down, or the account is debited, the  *)
(* step is the commit of a withdrawal or a transfer that this very user   *)
(* issued, through the transaction API or through a confirmed chat tool,  *)
(* whatever the arguments of the other calls are.                         *)
(***************************************************************************)
C27_OnlyOwnAccountIsDebited ==
    /\ [](\A t \in transfers :
            t.debit_account_id \in {SystemAccountID} \cup
                {TigerBeetleAccountID[u] : u \in Users})
    /\ [][\A v \in Users :
            LET a == TigerBeetleAccountID[v]
            IN  (\/ BalanceAfter(a) < GetBalance(a)
                 \/ accounts'[a].debits_posted # accounts[a].debits_posted) =>
                    \E w \in Workers :
                        /\ Commits(w)
                        /\ calls[w].user = v
                        /\ calls[w].op \in DebitOps
                        /\ calls[w].entry \in {"api", "confirm"}
                        /\ \A u \in Users \ {v} :
                            BalanceAfter(TigerBeetleAccountID[u])
                                >= GetBalance(TigerBeetleAccountID[u])]_vars

\* u1 has moved money to u2 through the chat tool, and u2's account has
\* never been debited.
C27_Witness ==
    \E w \in Workers :
        /\ calls[w].entry = "confirm" /\ calls[w].op = "transfer"
        /\ calls[w].user = "u1" /\ calls[w].dest = TigerBeetleAccountID["u2"]
        /\ calls[w].committed
        /\ accounts[TigerBeetleAccountID["u2"]].debits_posted = 0
        /\ accounts[TigerBeetleAccountID["u1"]].debits_posted > 0

(***************************************************************************)
(* C28.  When an in-flight request is cancelled the operation stops: it   *)
(* makes no further ledger, audit-store or completion-service call after  *)
(* the cancellation; and the stores never hold an audit record without a  *)
(* committed transfer.                                                    *)
(***************************************************************************)
C28_CancelledRequestStops ==
    /\ [](\A r \in transactions :
            \E t \in transfers : r.tigerbeetle_transfer_id = Uint128ToHex(t.id))
    /\ [][\A w \in Workers :
            (calls[w].cancelled /\ ~Free(w)) =>
                /\ calls'[w].io = calls[w].io
                /\ calls'[w].completions = calls[w].completions
                /\ calls'[w].submissions = calls[w].submissions
                /\ calls'[w].committed = calls[w].committed
                /\ calls'[w].audited = calls[w].audited]_vars

\* A confirmed withdrawal was cancelled in flight; it went on to the end.
C28_Witness ==
    \E w \in Workers :
        /\ calls[w].cancelled
        /\ calls[w].entry = "confirm" /\ calls[w].op = "withdraw"
        /\ calls[w].committed /\ calls[w].audited
        /\ calls[w].result = "nil"

\* The parsed intent has every parameter its operation needs.
Complete(p) ==
    \/ p.Intent \in {"balance", "history"}
    \/ p.Intent \in {"deposit", "withdraw"} /\ p.Amount > 0
    \/ p.Intent = "transfer" /\ p.Amount > 0 /\ p.ToAccountID # 0

\* The required parameters the parsed intent lacks.
MissingFields(p) ==
    (IF p.Intent \in {"deposit", "withdraw", "transfer"} /\ p.Amount <= 0
        THEN {"Amount"} ELSE {})
    \cup (IF p.Intent = "transfer" /\ p.ToAccountID = 0 THEN {"ToAccountID"} ELSE {})

\* The parameter a validation error names, "" when it names none.
NamedField(err) ==
    IF err \in {"please_specify_a_valid_amount",
                "please_specify_a_valid_transfer_amount"} THEN "Amount"
    ELSE IF err = "please_specify_the_destination_account_id" THEN "ToAccountID"
    ELSE ""

(***************************************************************************)
(* C29, as claimed.  ValidateIntent accepts a parsed intent exactly when  *)
(* it is complete, and every rejected intent, incomplete or unmatched,    *)
(* gets an error that names a missing field, never a generic one.         *)
(***************************************************************************)
C29_EveryRejectionNamesAField ==
    parser.pc = "validated" =>
        /\ (parser.err = "nil") <=> Complete(parser.parsed)
        /\ parser.err # "nil" => NamedField(parser.err) # ""
        /\ MissingFields(parser.parsed) # {} =>
                NamedField(parser.err) \in MissingFields(parser.parsed)

(***************************************************************************)
(* C29, amended.  ValidateIntent accepts a parsed intent exactly when it  *)
(* is complete: deposit and withdraw need Amount > 0, transfer needs      *)
(* Amount > 0 and ToAccountID # 0, balance and history are always         *)
(* accepted.  An incomplete intent gets an error that names a field it    *)
(* lacks; an unmatched intent gets the one generic error, which names no  *)
(* field.                                                                 *)
(***************************************************************************)
C29_IncompleteNamesAFieldUnmatchedIsGeneric ==
    parser.pc = "validated" =>
        /\ (parser.err = "nil") <=> Complete(parser.parsed)
        /\ parser.parsed.Intent \in {"balance", "history"} => parser.err = "nil"
        /\ MissingFields(parser.parsed) # {} =>
                NamedField(parser.err) \in MissingFields(parser.parsed)
        /\ parser.parsed.Intent = "unknown" =>
                parser.err = "i_didnt_understand_that_request"
        /\ (parser.err # "nil" /\ parser.parsed.Intent # "unknown") =>
                MissingFields(parser.parsed) # {}

\* A transfer with an amount and no destination was told to name one.
C29_Witness ==
    /\ parser.pc = "validated"
    /\ parser.parsed.Intent = "transfer"
    /\ parser.parsed.Amount > 0 /\ parser.parsed.ToAccountID = 0
    /\ parser.err = "please_specify_the_destination_account_id"

\* The message reads "transfer <amount> to account <dest>".
TransferShape(m) ==
    /\ Len(m) = 5
    /\ At(m, 1, {"transfer"}) /\ IsNumeral(m, 2)
    /\ At(m, 3, {"to"}) /\ At(m, 4, {"account"}) /\ IsNumeral(m, 5)

\* The message reads "show last|recent <n> transactions".
LimitShape(m) ==
    /\ Len(m) = 4
    /\ At(m, 1, {"show"}) /\ At(m, 2, {"last", "recent"})
    /\ IsNumeral(m, 3) /\ At(m, 4, {"transactions"})

(***************************************************************************)
(* C30.  For a message "transfer <amount> to account <dest>" ParseIntent  *)
(* returns Intent = transfer, Amount = the amount in minor units and      *)
(* ToAccountID = <dest>, the integer that follows "to"/"account", not the *)
(* amount; for a history message the limit is the number that follows     *)
(* "last"/"recent", capped at 100, and 10 when there is none.             *)
(***************************************************************************)
C30_TransferAndLimitAreExtracted ==
    LET m == parser.message
        p == parser.parsed
    IN  parser.pc \in {"parsed", "validated"} =>
            /\ TransferShape(m) =>
                    /\ p.Intent = "transfer"
                    /\ p.Amount = m[2].units * 100 + m[2].cents
                    /\ p.ToAccountID = m[5].units
            /\ LimitShape(m) =>
                    /\ p.Intent = "history"
                    /\ p.Limit = IF m[3].units > 100 THEN 100 ELSE m[3].units
            /\ (p.Intent = "history" /\ ~LimitShape(m)) => p.Limit = 10

\* "transfer 50 to account 7" was parsed as a transfer to account 50.
C30_Witness ==
    /\ parser.pc = "parsed"
    /\ TransferShape(parser.message)
    /\ parser.message[2] = Numeral(50, 0) /\ parser.message[5] = Numeral(7, 0)
    /\ parser.parsed.Intent = "transfer"
    /\ parser.parsed.Amount = 5000
    /\ parser.parsed.ToAccountID = 50

(***************************************************************************)
(* C31.  Money is handled in exact minor units: the deposit, withdraw and *)
(* transfer tool handlers convert a dollar amount d of at most two        *)
(* decimals to exactly d x 100 cents, so the amount that moves in the     *)
(* ledger is the amount the confirmation prompt showed; and extractAmount *)
(* does the same for the first amount of a message.                       *)
(***************************************************************************)
C31_CentsAreExact ==
    /\ \A w \in Workers :
        LET c == calls[w]
        IN  (c.entry = "confirm" /\ c.op \in MoneyTools) =>
                /\ c.amount = c.args.amount.cents
                /\ c.committed =>
                        \E t \in transfers :
                            t.id = c.transferID /\ t.amount = c.args.amount.cents
    /\ (/\ parser.pc \in {"parsed", "validated"}
        /\ parser.parsed.Intent \in MoneyTools
        /\ IsNumeral(parser.message, 2)) =>
            parser.parsed.Amount
                = parser.message[2].units * 100 + parser.message[2].cents

\* A confirmed deposit of $0.29 has put 28 cents into the ledger.
C31_Witness ==
    \E w \in Workers :
        /\ calls[w].entry = "confirm" /\ calls[w].op = "deposit"
        /\ calls[w].args.amount.cents = 29
        /\ calls[w].committed
        /\ calls[w].amount = 28
        /\ \E t \in transfers : t.id = calls[w].transferID /\ t.amount = 28

\* The tools that only read.
ReadTools == {"get_balance", "get_transaction_history"}

\* ExecuteTool has been called for the request c.
ReachedExecuteTool(c) ==
    \/ c.entry = "message" /\ c.error = NoError /\ c.tool # ""
    \/ c.entry = "confirm" /\ c.confirmed

(***************************************************************************)
(* C32.  The catalog is fixed at five tools: no other tool's handler ever *)
(* runs.  get_balance and get_transaction_history run without             *)
(* confirmation, with confirmed = false and confirmed = true alike, and   *)
(* their step leaves the ledger and the audit store unchanged; deposit,   *)
(* withdraw and transfer are exactly the tools answered with a            *)
(* confirmation request.                                                  *)
(***************************************************************************)
C32_ReadToolsRunUngated ==
    /\ [](\A w \in Workers :
            LET c == calls[w]
            IN  /\ c.handler # "" => c.handler = c.tool /\ c.tool \in ToolNames
                /\ (ReachedExecuteTool(c) /\ c.tool \in ReadTools) =>
                        /\ c.handler = c.tool
                        /\ ~c.response.requiresConfirmation
                        /\ c.op = "" /\ ~c.committed /\ ~c.audited
                /\ (ReachedExecuteTool(c) /\ c.tool \in ToolNames) =>
                        (c.response.requiresConfirmation
                            <=> (c.tool \in MoneyTools /\ ~c.confirmed)))
    /\ [][\A w \in Workers :
            (calls[w].pc = "read" /\ calls'[w] # calls[w]) =>
                /\ StoresUnchanged
                /\ calls'[w].pc = "done"]_vars

\* get_balance ran in a confirmation call and read the deposited 28 cents,
\* which are still there.
C32_Witness ==
    \E w \in Workers :
        /\ calls[w].entry = "confirm" /\ calls[w].confirmed
        /\ calls[w].tool = "get_balance" /\ calls[w].handler = "get_balance"
        /\ calls[w].pc = "done" /\ calls[w].result = "nil"
        /\ calls[w].balance = 28
        /\ GetBalance(TigerBeetleAccountID[calls[w].user]) = 28

(***************************************************************************)
(* C33.  A ProcessConfirmation call with confirmed = false, for any tool  *)
(* name, an unknown tool included, and any arguments, returns the reply   *)
(* "Operation cancelled." and no error in its first step, without         *)
(* calling ExecuteTool, a handler, the orchestrator or the completion     *)
(* service, and leaves every ledger balance and the audit store as they   *)
(* were.                                                                  *)
(***************************************************************************)
C33_DeclineOnlyReplies ==
    /\ [](\A w \in Workers :
            LET c == calls[w]
            IN  (c.entry = "confirm" /\ ~c.confirmed) =>
                    /\ c.pc = "done" /\ c.result = "nil"
                    /\ c.response = [NoResponse EXCEPT !.reply = "operation_cancelled"]
                    /\ c.handler = "" /\ c.op = ""
                    /\ c.toolResult = NoToolResult
                    /\ c.io = 0 /\ c.submissions = 0 /\ c.completions = 0)
    /\ [][\A w \in Workers :
            (/\ calls'[w] # calls[w]
             /\ calls'[w].entry = "confirm" /\ ~calls'[w].confirmed) =>
                /\ \A a \in AccountIDs : BalanceAfter(a) = GetBalance(a)
                /\ transfers' = transfers
                /\ transactions' = transactions]_vars

\* A transfer by an unknown tool name is declined after a deposit.
C33_Witness ==
    \E w \in Workers :
        /\ calls[w].entry = "confirm" /\ ~calls[w].confirmed
        /\ calls[w].tool = "unknown_tool"
        /\ calls[w].args = Arguments(Number(29), Str(<<"3">>))
        /\ calls[w].response.reply = "operation_cancelled"
        /\ transfers # {} /\ transactions # {}

\* The sum of the balances of the accounts S.
RECURSIVE SumBalances(_)
SumBalances(S) ==
    IF S = {} THEN 0
    ELSE LET a == CHOOSE x \in S : TRUE
         IN  GetBalance(a) + SumBalances(S \ {a})

UserAccounts == {TigerBeetleAccountID[u] : u \in Users}

(***************************************************************************)
(* C34.  Money is conserved: in every reachable state, under any          *)
(* interleaving of Deposit, Withdraw and Transfer, the balances of the    *)
(* user accounts and of the system account add up to zero, the system     *)
(* account's balance is minus the sum of the users' balances, and no      *)
(* account but the system account has a negative balance.                 *)
(***************************************************************************)
C34_MoneyIsConserved ==
    /\ SumBalances(DOMAIN accounts) = 0
    /\ GetBalance(SystemAccountID) = 0 - SumBalances(UserAccounts)
    /\ \A a \in DOMAIN accounts : GetBalance(a) < 0 => a = SystemAccountID
    /\ SumAmounts({t \in transfers : t.debit_account_id = SystemAccountID})
         - SumAmounts({t \in transfers : t.credit_account_id = SystemAccountID})
            = SumBalances(UserAccounts)

\* After a deposit and a transfer between users the bank owes what the
\* recipient holds.
C34_Witness ==
    /\ GetBalance(SystemAccountID) < 0
    /\ \E t \in transfers : t.code = Code["transfer"]
    /\ GetBalance(TigerBeetleAccountID["u2"]) > 0
    /\ GetBalance(TigerBeetleAccountID["u1"]) = 0

(***************************************************************************)
(* C35.  Transfer reports "destination account not found" only when the   *)
(* ledger lookup went through and returned no account: a lookup that      *)
(* failed in transport is reported otherwise, so a call that ended with   *)
(* that error named an account the ledger does not have.                  *)
(***************************************************************************)
C35_NotFoundMeansNoAccount ==
    [][\A w \in Workers :
        (/\ calls[w].pc = "lookup"
         /\ calls'[w].result = "destination_account_not_found") =>
            LookupAccounts(calls[w].dest) = {}]_vars

\* u1, holding one cent, was told that u2's account does not exist.
C35_Witness ==
    \E w \in Workers :
        /\ calls[w].op = "transfer" /\ calls[w].user = "u1"
        /\ calls[w].dest = TigerBeetleAccountID["u2"]
        /\ calls[w].balance = 1 /\ calls[w].amount = 1
        /\ calls[w].result = "destination_account_not_found"
        /\ LookupAccounts(calls[w].dest) # {}

(***************************************************************************)
(* C36.  Every ProcessMessage turn ends after at most two completion      *)
(* requests and at most one tool-handler invocation: of several tool      *)
(* calls in the answer only the first goes to ExecuteTool; the turn is    *)
(* over with the step that follows the handler's start, in which the      *)
(* summarising request is made; and a tool call in the summarising        *)
(* answer is not executed.                                                *)
(***************************************************************************)
C36_TurnIsBounded ==
    /\ [](\A w \in Workers :
            LET c == calls[w]
            IN  c.entry = "message" =>
                    /\ c.completions \in {1, 2}
                    /\ c.pc \in {"read", "done"}
                    /\ c.pc = "read" => c.completions = 1
                    /\ c.completions = 2 =>
                            c.pc = "done" /\ c.handler \in ReadTools /\ c.summary # ""
                    /\ c.tool = (IF c.toolCalls = <<>> THEN "" ELSE Head(c.toolCalls))
                    /\ c.handler # "" => c.handler = Head(c.toolCalls)
                    /\ c.op = "" /\ c.io = 0 /\ c.submissions = 0
                    /\ c.summary = "tool_call" =>
                            /\ c.handler = Head(c.toolCalls)
                            /\ ~c.response.requiresConfirmation)
    /\ [][\A w \in Workers :
            (calls[w].entry = "message" /\ ~Free(w) /\ calls'[w] # calls[w]) =>
                /\ calls'[w].pc = "done"
                /\ calls'[w].handler = calls[w].handler
                /\ calls'[w].completions <= calls[w].completions + 1
                /\ StoresUnchanged]_vars

\* The answer asked for get_balance and deposit: get_balance ran, the
\* summarising answer asked for a deposit, and nothing more was run.
C36_Witness ==
    \E w \in Workers :
        /\ calls[w].entry = "message" /\ calls[w].pc = "done"
        /\ calls[w].toolCalls = <<"get_balance", "deposit">>
        /\ calls[w].handler = "get_balance"
        /\ calls[w].completions = 2
        /\ calls[w].summary = "tool_call"
        /\ calls[w].op = ""

(***************************************************************************)
(* Deposit size limit: Handler.Deposit and the chat deposit tool.          *)
(***************************************************************************)
\* The largest amount, in cents, Handler.Deposit passes to the service.
MaxDepositAmount == 1000000000

\* Amounts, in cents, the request body of the deposit endpoint may carry, and
\* the same amounts as the dollars the chat tool is handed (in hundredths).
LimitAmounts == {0, 100, MaxDepositAmount, MaxDepositAmount + 1}

\* DepositRequest's binding (required, gt=0) and the handler's size check.
TooLarge(amount) == amount > MaxDepositAmount

\* Handler.Deposit: bind the body, check the size, call Service.Deposit.
HandlerDeposit(w) ==
    /\ CanStart(w, MaxTurns)
    /\ \E u \in Users, a \in LimitAmounts, dbOK \in BOOLEAN :
        LET c == [ApiCall(u) EXCEPT !.op = "deposit", !.amount = a]
        IN  calls' = [Retired EXCEPT ![w] =
                IF a <= 0 THEN Finish(c, "invalid_request_payload")
                ELSE IF TooLarge(a) THEN Finish(c, "deposit_amount_too_large")
                ELSE Enter(ApiCall(u), "deposit", u, a, 0, dbOK)]
    /\ started' = started + 1
    /\ UNCHANGED <<accounts, transfers, transactions, issued, main, parser, stored>>

\* The confirmation of a deposit the chat proposed.
ConfirmDeposit(w) ==
    ProcessConfirmationOn(w, {"deposit"},
        {Arguments(Number(h), NoArgs.to_account_id) : h \in LimitAmounts})

\* The ledger's balances are 128 bits wide; here they are kept within 31, so
\* a request is let in only while the deposits of the limit's size that are
\* committed or about to be submitted leave room for one more.
Headroom ==
    LET LargeDeposits ==
            Cardinality({t \in transfers : t.amount >= MaxDepositAmount})
                + Cardinality({w \in Workers :
                                  /\ calls[w].pc = "submit"
                                  /\ calls[w].amount >= MaxDepositAmount})
    IN  LargeDeposits + 1 <= 2147483647 \div (MaxDepositAmount + 1)

NextLimit ==
    \E w \in Workers :
        \/ Headroom /\ HandlerDeposit(w)
        \/ Headroom /\ ConfirmDeposit(w)
        \/ SubmitTransfer(w)
        \/ RecordTransaction(w)

LimitSpec == Init /\ [][NextLimit]_vars

\* C37: no deposit of more than 1,000,000,000 cents is ever committed to the
\* ledger, whichever entry point it was requested through.
C37_NoDepositAboveLimit ==
    \A t \in transfers : t.code = Code["deposit"] => t.amount <= MaxDepositAmount

\* A confirmed chat deposit of 10,000,000.01 dollars is committed.
C37_Witness ==
    \E w \in Workers :
        /\ calls[w].entry = "confirm" /\ calls[w].op = "deposit"
        /\ calls[w].committed
        /\ calls[w].amount = MaxDepositAmount + 1
        /\ \E t \in transfers : t.amount = MaxDepositAmount + 1

(***************************************************************************)
(* Transfer IDs in audit records: Set/GetTigerBeetleTransferID and the     *)
(* helpers Uint128ToHex / HexToUint128.                                    *)
(***************************************************************************)
\* The IDs that are stored: a byte out of three at the two ends and at the
\* two middle places of the 16, zero elsewhere.
IDs ==
    LET IDBytes == {0, 1, 171}
    IN  {[i \in 1..16 |-> CASE i = 1 -> a [] i = 8 -> b [] i = 9 -> c
                            [] i = 16 -> d [] OTHER -> 0] :
            a \in IDBytes, b \in IDBytes, c \in IDBytes, d \in IDBytes}

\* t.SetTigerBeetleTransferID(x) on a new record, or s := Uint128ToHex(x)
\* kept by the caller: the two have the same body.
SetTigerBeetleTransferID ==
    /\ stored.pc = "new"
    /\ \E x \in IDs, via \in {"record", "helper"} :
        stored' = [stored EXCEPT !.pc = "set", !.via = via, !.id = x,
                                 !.TigerBeetleTransferID = TransferIDToHex(x)]
    /\ UNCHANGED <<accounts, transfers, transactions, calls, issued, started, main,
                   parser>>

\* t.GetTigerBeetleTransferID() on the record that was set, or HexToUint128(s)
\* on the string Uint128ToHex returned: the two have the same body.
GetTigerBeetleTransferID ==
    /\ stored.pc = "set"
    /\ LET r == HexToUint128(stored.TigerBeetleTransferID)
       IN  stored' = [stored EXCEPT !.pc = "got", !.got = r.id, !.err = r.err]
    /\ UNCHANGED <<accounts, transfers, transactions, calls, issued, started, main,
                   parser>>

NextID ==
    \/ SetTigerBeetleTransferID
    \/ GetTigerBeetleTransferID

IDSpec == Init /\ [][NextID]_vars

\* C38: the ID read back from an audit record, or from the string
\* Uint128ToHex made, is the ID that was stored.
C38_TransferIDRoundTrip ==
    stored.pc = "got" => stored.err = "" /\ stored.got = stored.id

\* The ID 1 was stored as 00000000000000000000000000000001 and read back,
\* without an error, as the ID whose most significant byte is 1.
C38_Witness ==
    /\ stored.pc = "got" /\ stored.via = "record" /\ stored.err = ""
    /\ stored.id = ToUint128(1)
    /\ stored.TigerBeetleTransferID = [k \in 1..32 |-> IF k = 32 THEN 1 ELSE 0]
    /\ stored.got = [i \in 1..16 |-> IF i = 16 THEN 1 ELSE 0]
    /\ stored.got # stored.id

====
